---------------------------- MODULE Spec2Model ----------------------------
(***************************************************************************)
(* Quarry: the asynchronous file-operation engine of MainFrame.cpp and the  *)
(* backend operations of util.cpp.                                          *)
(*                                                                          *)
(* Two threads are modelled.  The UI thread runs the controller: the       *)
(* submission entry points, the confirmation dialogs, the 100 ms timer     *)
(* handler of the active session, the Cancel button and the queue buttons. *)
(* A modal dialog (ShowModal / wxMessageBox) suspends the handler that     *)
(* opened it and runs a nested event loop; uiStack holds the suspended     *)
(* handlers, innermost last.  Inside a nested loop timer events and drop   *)
(* events are still dispatched; input to every other window is blocked by  *)
(* the modal dialog.  The worker thread of the active session runs the     *)
(* per-source loop and the backend call, one step per shared-memory or     *)
(* filesystem access.                                                      *)
(*                                                                          *)
(* A path is the sequence of its components; the filesystem is a function  *)
(* from the existing paths to their nodes.                                  *)
(*                                                                          *)
(* Spec is the whole controller with up to MaxSubmits submissions of       *)
(* single-source requests; RunSpec is one submission of a multi-source     *)
(* request and follows its run through the backends; QueueSpec is up to    *)
(* MaxQueued submissions of short requests and the queue buttons;          *)
(* PanelSpec is one submission and the context menu of a file panel.       *)
(***************************************************************************)
EXTENDS Integers, Sequences, FiniteSets, TLC

(***************************************************************************)
(* Bounds of the model.                                                     *)
(***************************************************************************)
MaxSubmits == 2     \* submissions accepted by the entry points in one behaviour
MaxNest == 2        \* modal dialogs open at the same time
MaxFaults == 1      \* system calls failing without a cause in the model
MaxRenames == 1     \* Rename decisions given in one behaviour
MaxReports == 2     \* progress callbacks of one GIO file copy
MaxQueued == 4      \* submissions in the specification of the queue

(***************************************************************************)
(* Paths and nodes.                                                         *)
(***************************************************************************)
SrcDir == <<"s">>
DstDir == <<"d">>
EmptyPath == <<>>

NoEnt == [t |-> "none"]
DirNode == [t |-> "dir"]
FileNode(data) == [t |-> "file", data |-> data]
\* A symbolic link and its target; a special file (fifo, socket, device).
LinkNode(target) == [t |-> "link", data |-> target]
OtherNode == [t |-> "other"]

\* Components that carry "://" (a scheme and authority).
UriTokens == {"smb://h"}

\* util.cpp LooksLikeUriString / MainFrame.cpp LooksLikeUriPath:
\* the string contains "://" (the scheme is never empty in UriTokens).
LooksLikeUriString(p) == \E i \in 1..Len(p) : p[i] \in UriTokens

IsPrefix(a, b) == Len(a) <= Len(b) /\ SubSeq(b, 1, Len(a)) = a

Parent(p) == IF p = <<>> THEN <<>> ELSE SubSeq(p, 1, Len(p) - 1)

\* util.cpp PathExistsAny: fs::exists / g_file_query_exists.
PathExistsAny(f, p) == p \in DOMAIN f

\* util.cpp IsDirectoryAny.
IsDirectoryAny(f, p) == p \in DOMAIN f /\ f[p].t = "dir"

\* The components of a name: the name split at its separators.
NameComponents(name) == IF name = "../s/n" THEN <<"..", "s", "n">> ELSE <<name>>

\* The entry a path names: ".." names the parent of what precedes it, and does not
\* leave the root of a URI.
RECURSIVE Resolve(_)
Resolve(p) ==
  IF p = <<>> THEN <<>>
  ELSE LET r == Resolve(SubSeq(p, 1, Len(p) - 1))
           c == p[Len(p)]
       IN IF c # ".." THEN Append(r, c)
          ELSE IF Len(r) = 1 /\ r[1] \in UriTokens THEN r
          ELSE Parent(r)

\* util.cpp JoinDirAndNameAny: dir / name, or the child URI of dir; the name is
\* joined as it is, separators included.
JoinDirAndNameAny(dir, name) == Resolve(dir \o NameComponents(name))

NodeAt(f, p) == IF p \in DOMAIN f THEN f[p] ELSE NoEnt

\* The filesystem f with node n written at path p.
Put(f, p, n) == [q \in (DOMAIN f) \cup {p} |-> IF q = p THEN n ELSE f[q]]

\* fs::remove_all(p) / GioDeleteRecursive: p and everything below it.
RemoveAll(f, p) == [q \in {r \in DOMAIN f : ~IsPrefix(p, r)} |-> f[q]]

\* The entries strictly below p.
Below(f, p) == {q \in DOMAIN f : IsPrefix(p, q) /\ q # p}

\* fs::create_directories(p) succeeds: no existing component of p is a non-directory.
CanCreateDirs(f, p) ==
  \A k \in 1..Len(p) :
     LET a == SubSeq(p, 1, k) IN a \in DOMAIN f => f[a].t = "dir"

\* create_directories making the directories above p and not p.
CreateDirsAbove(f, p) ==
  LET anc == {SubSeq(p, 1, k) : k \in 1..(Len(p) - 1)}
  IN [q \in (DOMAIN f) \cup anc |-> IF q \in DOMAIN f THEN f[q] ELSE DirNode]

\* fs::create_directories(p): every missing component becomes a directory.
CreateDirs(f, p) ==
  LET anc == {SubSeq(p, 1, k) : k \in 1..Len(p)}
  IN [q \in (DOMAIN f) \cup anc |-> IF q \in DOMAIN f THEN f[q] ELSE DirNode]


(***************************************************************************)
(* The requests the entry points are called with.  MainFrame.h QueuedOp.    *)
(***************************************************************************)
\* confirms is history: the confirmation boxes the user answered Yes for the request.
Op(kind, move, sources, dstDir) ==
  [id |-> 0, kind |-> kind, move |-> move, sources |-> sources, dstDir |-> dstDir,
   confirms |-> 0]

FileA == <<"s", "a">>
RemoteDir == <<"smb://h">>
RemoteFile == <<"smb://h", "r">>
DirB == <<"s", "b">>

\* The extractor command line of one archive (argv of ExtractWithProgress).
ArchiveArgv == <<"7z">>

\* The requests of the controller's specification: short runs of every kind.
CopyMoveOps == { Op("CopyMove", FALSE, <<RemoteFile>>, DstDir),
                 Op("CopyMove", TRUE, <<DirB>>, DstDir) }
TrashOps == { Op("Trash", FALSE, <<FileA>>, EmptyPath) }
DeleteOps == { Op("Delete", FALSE, <<DstDir>>, EmptyPath) }
ExtractOps == { Op("Extract", FALSE, <<ArchiveArgv>>, EmptyPath) }

\* The requests of the single-run specification: several sources, an empty path,
\* a source that does not exist, a destination that does not exist, one that is a
\* file, one that lies inside a source, one that is the directory of the source.
MissingDir == <<"m">>
\* A directory that holds a symbolic link and a special file.
DirC == <<"s", "c">>
Gone == <<"s", "g">>
\* A nested tree: an empty directory, a file of no bytes, a symbolic link and a
\* directory with a file.
DirT == <<"s", "t">>
RunCopyMoveOps == { Op("CopyMove", FALSE, <<FileA, DirB>>, DstDir),
                    Op("CopyMove", TRUE, <<FileA, DirB>>, DstDir),
                    Op("CopyMove", FALSE, <<EmptyPath, Gone, FileA>>, DstDir),
                    Op("CopyMove", FALSE, <<RemoteFile>>, DstDir),
                    Op("CopyMove", TRUE, <<RemoteFile>>, DstDir),
                    Op("CopyMove", TRUE, <<DirC>>, DstDir),
                    Op("CopyMove", FALSE, <<FileA>>, MissingDir),
                    Op("CopyMove", FALSE, <<DirB>>, FileA),
                    Op("CopyMove", FALSE, <<FileA, DirB>>, DirB),
                    Op("CopyMove", FALSE, <<DirT>>, DstDir),
                    Op("CopyMove", FALSE, <<FileA>>, SrcDir) }
RunTrashOps == { Op("Trash", FALSE, <<FileA, EmptyPath, DirB>>, EmptyPath),
                 Op("Trash", FALSE, <<Gone, FileA>>, EmptyPath),
                 Op("Trash", FALSE, <<RemoteFile, FileA>>, EmptyPath) }
RemoteGone == <<"smb://h", "g">>
RunDeleteOps == { Op("Delete", FALSE, <<DstDir, EmptyPath, FileA>>, EmptyPath),
                  Op("Delete", FALSE, <<Gone, RemoteGone, FileA>>, EmptyPath) }

\* The names a Rename decision can carry (the text of wxTextEntryDialog, taken as
\* typed): "a" exists in the destination, "n" is free, "../s/n" has separators.
RenameNames == {"a", "n", "../s/n"}

\* The filesystem at start: both sources collide with an entry of the destination.
InitialFs ==
  (SrcDir :> DirNode) @@ (DstDir :> DirNode) @@
  (FileA :> FileNode(<<"a1", "a2">>)) @@
  (DirB :> DirNode) @@ (<<"s", "b", "x">> :> FileNode(<<"x1">>)) @@
  (<<"d", "a">> :> FileNode(<<"o1">>)) @@
  (<<"d", "b">> :> DirNode) @@ (<<"d", "b", "y">> :> FileNode(<<"y1">>)) @@
  (RemoteDir :> DirNode) @@ (RemoteFile :> FileNode(<<"r1", "r2">>)) @@
  (DirC :> DirNode) @@ (<<"s", "c", "l">> :> LinkNode(FileA)) @@
  (<<"s", "c", "p">> :> OtherNode) @@
  (DirT :> DirNode) @@ (<<"s", "t", "e">> :> DirNode) @@
  (<<"s", "t", "z">> :> FileNode(<<>>)) @@ (<<"s", "t", "l">> :> LinkNode(FileA)) @@
  (<<"s", "t", "n">> :> DirNode) @@ (<<"s", "t", "n", "f">> :> FileNode(<<"f1">>))

(***************************************************************************)
(* State.                                                                   *)
(***************************************************************************)
VARIABLES
  fileOp,     \* MainFrame::fileOp_: the session, or NoSession
  st,         \* the AsyncFileOpState objects, by session number
  nextSid,    \* number of the next session object
  opQueue,    \* MainFrame::opQueue_
  nextOpId,   \* MainFrame::nextOpId_
  uiStack,    \* handlers of the UI thread suspended in a modal dialog
  wk,         \* the worker thread of the newest session
  fs,         \* the filesystem
  crashed,    \* the process was terminated (std::terminate, null dereference) or hangs
  torn,       \* per state object: executions of the timer handler's finished branch
  faults,     \* failures of system calls so far (bounds the behaviour)
  submits,    \* submissions made so far (bounds the behaviour)
  renames,    \* Rename decisions given so far (bounds the behaviour)
  startLog,   \* the runs started, in start order: the queue id, 0 if never queued
  manual      \* a queue button (remove, reorder, clear) was used

vars == <<fileOp, st, nextSid, opQueue, nextOpId, uiStack, wk, fs, crashed, torn,
          faults, submits, renames, startLog, manual>>

NoSession == [sid |-> 0, promptActive |-> FALSE, kind |-> "none", items |-> 0]
NoPrompt == [kind |-> "none", path |-> EmptyPath, errorMessage |-> ""]
\* asked and askedKind are history: the path and the kind of the request whose
\* dialog produced the reply.
NoReply == [has |-> FALSE, existsChoice |-> "Cancel", renameTo |-> "",
            hasName |-> FALSE, continueAfterError |-> FALSE, trashFailChoice |-> "Cancel",
            asked |-> EmptyPath, askedKind |-> "none"]
\* MainFrame.cpp AsyncFileOpReply with its default member values.
DefaultReply == [NoReply EXCEPT !.has = TRUE]

\* MainFrame.cpp AsyncFileOpState with its default member values.
NewState(scanPreset) ==
  [cancelRequested |-> FALSE, done |-> 0, bytesDone |-> 0, finished |-> FALSE,
   scanDone |-> scanPreset, totalBytes |-> 0, prompt |-> NoPrompt, reply |-> NoReply]

IdleWorker ==
  [sid |-> 0, kind |-> "none", move |-> FALSE, sources |-> <<>>, dstDir |-> EmptyPath,
   pc |-> "done", i |-> 1, dst |-> EmptyPath, skipItem |-> FALSE, total |-> 0,
   todo |-> {}, cur |-> EmptyPath, out |-> EmptyPath, off |-> 0, phase |-> "none",
   result |-> "ok", lastBytes |-> 0, blocked |-> FALSE, choice |-> "none",
   pre |-> <<>>, confirms |-> 0]

FirstPc(kind) ==
  CASE kind = "CopyMove" -> "scan"
    [] kind = "Trash" -> "tloop"
    [] kind = "Delete" -> "dloop"
    [] OTHER -> "exec"


NewWorker(sid, op) ==
  [IdleWorker EXCEPT !.sid = sid, !.kind = op.kind, !.move = op.move,
                     !.sources = op.sources, !.dstDir = op.dstDir,
                     !.pc = FirstPc(op.kind), !.confirms = op.confirms]

(***************************************************************************)
(* The controller.  Its operators map the controller's variables, held in   *)
(* one record c, to their values after the call.                            *)
(***************************************************************************)
Cur ==
  [fileOp |-> fileOp, st |-> st, nextSid |-> nextSid, opQueue |-> opQueue,
   nextOpId |-> nextOpId, uiStack |-> uiStack, wk |-> wk, crashed |-> crashed,
   torn |-> torn, startLog |-> startLog]

\* The state objects something still points to: fileOp_, a suspended handler or the
\* running worker (std::shared_ptr<AsyncFileOpState>).
Live(c) ==
  {c.fileOp.sid} \cup {c.uiStack[k].sid : k \in 1..Len(c.uiStack)}
  \cup (IF c.wk.pc = "done" THEN {} ELSE {c.wk.sid})

Commit(c) ==
  /\ fileOp' = c.fileOp
  /\ st' = [sid \in (DOMAIN c.st) \cap Live(c) |-> c.st[sid]]
  /\ torn' = c.torn
  /\ nextSid' = c.nextSid
  /\ opQueue' = c.opQueue
  /\ nextOpId' = c.nextOpId
  /\ uiStack' = c.uiStack
  /\ wk' = c.wk
  /\ crashed' = c.crashed
  /\ startLog' = c.startLog

\* A suspended handler: k is what it waits in, hk the kind of the session whose timer
\* handler it is, sid the AsyncFileOpState it captured, op the request it carries.
Frame(k, sid, hk, op, prompt) ==
  [k |-> k, sid |-> sid, hk |-> hk, op |-> op, prompt |-> prompt]
NoOp == Op("none", FALSE, <<>>, EmptyPath)
DialogKinds == {"confirm", "msgbox", "prompt", "panelconfirm", "pasteprompt"}

Push(c, frame) == [c EXCEPT !.uiStack = Append(c.uiStack, frame)]
Pop(c) == [c EXCEPT !.uiStack = SubSeq(c.uiStack, 1, Len(c.uiStack) - 1)]
NoFrame == Frame("none", 0, "none", NoOp, NoPrompt)
Top == IF uiStack = <<>> THEN NoFrame ELSE uiStack[Len(uiStack)]
NumDialogs(stack) == Cardinality({k \in 1..Len(stack) : stack[k].k \in DialogKinds})

\* The main event loop is dispatching: no handler is running, no dialog is open.
TopLevel == ~crashed /\ uiStack = <<>>
\* The main loop or the nested loop of the innermost modal dialog is dispatching.
InLoop == ~crashed /\ (uiStack = <<>> \/ Top.k \in DialogKinds)

\* MainFrame.cpp:1305-1306, 1458 (and 1756, 2082, 2360): fileOp_ = make_unique<FileOpSession>,
\* state = make_shared<AsyncFileOpState>, worker = std::thread.  Assigning over an
\* existing session destroys it with its worker still joinable: std::terminate.
CreateSession(c, op) ==
  LET sid == c.nextSid
      overlap == c.fileOp # NoSession
  IN [c EXCEPT !.fileOp = [sid |-> sid, promptActive |-> FALSE, kind |-> op.kind,
                           items |-> Len(op.sources)],
               !.st = c.st @@ (sid :> NewState(op.kind # "CopyMove")),
               !.torn = c.torn @@ (sid :> 0),
               !.nextSid = sid + 1,
               !.wk = IF overlap THEN c.wk ELSE NewWorker(sid, op),
               !.crashed = c.crashed \/ overlap,
               !.startLog = IF overlap THEN c.startLog ELSE Append(c.startLog, op.id)]

\* EnqueueOp numbering the entry by its place in the queue.
EnqueueOpByPlace(c, op) ==
  [c EXCEPT !.opQueue = Append(c.opQueue, [op EXCEPT !.id = Len(c.opQueue) + 1]),
            !.nextOpId = c.nextOpId + 1]

\* MainFrame::EnqueueOp.
EnqueueOp(c, op) ==
  LET fresh == op.id = 0
      q == [op EXCEPT !.id = IF fresh THEN c.nextOpId ELSE op.id]
  IN [c EXCEPT !.opQueue = Append(c.opQueue, q),
               !.nextOpId = IF fresh THEN c.nextOpId + 1 ELSE c.nextOpId]

\* MainFrame.cpp:1276 / 1254: the destination pre-flight check.
PreflightOk(f, dstDir) ==
  dstDir # EmptyPath /\ PathExistsAny(f, dstDir) /\ IsDirectoryAny(f, dstDir)

\* The session exists: the test "if (fileOp_)" of the entry points.
SessionExists(c) == c.fileOp # NoSession

\* MainFrame::CopyMoveWithProgressInternal up to the session's creation.
CopyMoveWithProgressInternal(c, op, alreadyConfirmed, f) ==
  IF op.sources = <<>> THEN c
  ELSE IF ~PreflightOk(f, op.dstDir) THEN Push(c, Frame("msgbox", 0, "none", NoOp, NoPrompt))
  ELSE IF SessionExists(c) THEN EnqueueOp(c, [op EXCEPT !.id = 0])
  ELSE IF ~alreadyConfirmed /\ op.move THEN Push(c, Frame("confirm", 0, "none", op, NoPrompt))
  ELSE CreateSession(c, op)

\* MainFrame::TrashWithProgressInternal / DeleteWithProgressInternal after the
\* confirmation: queue behind the active session or start.
StartOrEnqueue(c, op) ==
  IF SessionExists(c) THEN EnqueueOp(c, [op EXCEPT !.id = 0]) ELSE CreateSession(c, op)

\* MainFrame::TrashWithProgressInternal, MainFrame::DeleteWithProgressInternal.
TrashDeleteWithProgressInternal(c, op, alreadyConfirmed) ==
  IF op.sources = <<>> THEN c
  ELSE IF ~alreadyConfirmed THEN Push(c, Frame("confirm", 0, "none", op, NoPrompt))
  ELSE StartOrEnqueue(c, op)

\* MainFrame::ExtractWithProgress.
ExtractWithProgress(c, op) == StartOrEnqueue(c, op)

\* MainFrame::StartNextQueuedOp.
StartNextQueuedOp(c, f) ==
  IF c.fileOp # NoSession THEN c
  ELSE IF c.opQueue = <<>> THEN c
  ELSE LET op == Head(c.opQueue)
           c1 == [c EXCEPT !.opQueue = Tail(c.opQueue)]
       IN CASE op.kind = "CopyMove" -> CopyMoveWithProgressInternal(c1, op, TRUE, f)
            [] op.kind \in {"Trash", "Delete"} -> TrashDeleteWithProgressInternal(c1, op, TRUE)
            [] OTHER -> ExtractWithProgress(c1, op)


\* cv.notify_all() on the condition variable of state sid.
Notify(c, sid) ==
  IF c.wk.sid = sid THEN [c EXCEPT !.wk.blocked = FALSE] ELSE c

(***************************************************************************)
(* UI thread: submissions and confirmation dialogs.                         *)
(***************************************************************************)
\* OnCopy, OnMove, StartFileOperation (main loop only) and TransferDroppedPaths
\* (also dispatched by the nested loop of a modal dialog).
\* As one of at most limit submissions.
SubmitCopyMoveUpTo(op, limit) ==
  /\ InLoop
  /\ submits < limit
  /\ LET c == CopyMoveWithProgressInternal(Cur, op, FALSE, fs)
     IN /\ NumDialogs(c.uiStack) <= MaxNest
        /\ Commit(c)
  /\ submits' = submits + 1
  /\ UNCHANGED <<fs, faults, renames, manual>>

SubmitCopyMove(op) == SubmitCopyMoveUpTo(op, MaxSubmits)

\* OnDelete / StartTrashOperation, OnDeletePermanent / StartDeleteOperation, as one
\* of at most limit submissions.
SubmitTrashDeleteUpTo(op, limit) ==
  /\ TopLevel
  /\ submits < limit
  /\ Commit(TrashDeleteWithProgressInternal(Cur, op, FALSE))
  /\ submits' = submits + 1
  /\ UNCHANGED <<fs, faults, renames, manual>>

SubmitTrashDelete(op) == SubmitTrashDeleteUpTo(op, MaxSubmits)

\* StartExtractOperation, as one of at most limit submissions.
SubmitExtractUpTo(op, limit) ==
  /\ TopLevel
  /\ submits < limit
  /\ Commit(ExtractWithProgress(Cur, op))
  /\ submits' = submits + 1
  /\ UNCHANGED <<fs, faults, renames, manual>>

SubmitExtract(op) == SubmitExtractUpTo(op, MaxSubmits)

\* The user answers the confirmation box (MainFrame.cpp:1300, 1746, 2072); the
\* handler resumes behind it.
ConfirmAnswer(yes) ==
  /\ ~crashed
  /\ uiStack # <<>>
  /\ Top.k = "confirm"
  /\ LET op == [Top.op EXCEPT !.confirms = @ + 1]
         c0 == Pop(Cur)
     IN Commit(IF ~yes THEN c0
               ELSE IF op.kind = "CopyMove" THEN CreateSession(c0, op)
               ELSE StartOrEnqueue(c0, op))
  /\ UNCHANGED <<fs, faults, submits, renames, manual>>

\* The user closes a warning box (MainFrame.cpp:1277, 1255); the handler returns.
MsgBoxClose ==
  /\ ~crashed
  /\ uiStack # <<>>
  /\ Top.k = "msgbox"
  /\ Commit(Pop(Cur))
  /\ UNCHANGED <<fs, faults, submits, renames, manual>>

(***************************************************************************)
(* UI thread: the buttons of the session's dialog.                          *)
(***************************************************************************)
\* cancelBtn handler (MainFrame.cpp:1445-1451, 1899-1905, 2225-2231, 2495-2499):
\* the Extract session's handler does not notify.
CancelClick ==
  /\ TopLevel
  /\ fileOp # NoSession
  /\ ~st[fileOp.sid].cancelRequested
  /\ LET c1 == [Cur EXCEPT !.st[fileOp.sid].cancelRequested = TRUE]
     IN Commit(IF fileOp.kind = "Extract" THEN c1 ELSE Notify(c1, fileOp.sid))
  /\ UNCHANGED <<fs, faults, submits, renames, manual>>

QueueIds == {opQueue[k].id : k \in 1..Len(opQueue)}
IndexOf(q, id) == CHOOSE k \in 1..Len(q) : q[k].id = id
RemoveAt(q, k) == SubSeq(q, 1, k - 1) \o SubSeq(q, k + 1, Len(q))
Swap(q, j, k) == [q EXCEPT ![j] = q[k], ![k] = q[j]]

\* cancelQueuedBtn handler (MainFrame.cpp:1377-1389).
CancelQueued(q, id) ==
  IF id \in {q[k].id : k \in 1..Len(q)} THEN RemoveAt(q, IndexOf(q, id)) ELSE q

\* moveSelected bringing the entry to the top by a swap with the first entry.
MoveSelectedBySwap(q, id, direction) ==
  IF id \notin {q[k].id : k \in 1..Len(q)} THEN q
  ELSE LET idx == IndexOf(q, id)
       IN IF direction = -999
          THEN IF idx = 1 THEN q ELSE Swap(q, idx, 1)
          ELSE IF direction < 0
          THEN IF idx = 1 THEN q ELSE Swap(q, idx, idx - 1)
          ELSE IF idx + 1 > Len(q) THEN q ELSE Swap(q, idx, idx + 1)

\* moveSelected (MainFrame.cpp:1392-1422): direction -999 top, -1 up, 1 down.
MoveSelected(q, id, direction) ==
  IF id \notin {q[k].id : k \in 1..Len(q)} THEN q
  ELSE LET idx == IndexOf(q, id)
       IN IF direction = -999
          THEN IF idx = 1 THEN q ELSE <<q[idx]>> \o RemoveAt(q, idx)
          ELSE IF direction < 0
          THEN IF idx = 1 THEN q ELSE Swap(q, idx, idx - 1)
          ELSE IF idx + 1 > Len(q) THEN q ELSE Swap(q, idx, idx + 1)

QueueButton ==
  /\ TopLevel
  /\ fileOp # NoSession
  /\ opQueue # <<>>
  /\ \/ \E id \in QueueIds : opQueue' = CancelQueued(opQueue, id)
     \/ opQueue' = <<>>
     \/ \E id \in QueueIds, direction \in {-999, -1, 1} :
           opQueue' = MoveSelected(opQueue, id, direction)
  /\ manual' = TRUE
  /\ UNCHANGED <<fileOp, st, nextSid, nextOpId, uiStack, wk, fs, crashed, torn,
                 faults, submits, renames, startLog>>

(***************************************************************************)
(* UI thread: the timer handler of the session (MainFrame.cpp:1593-1731,    *)
(* 1978-2056, 2277-2342, 2537-2584).                                        *)
(***************************************************************************)
Exists(choice) == [DefaultReply EXCEPT !.existsChoice = choice]
RenameTo(name) == [DefaultReply EXCEPT !.existsChoice = "Rename", !.renameTo = name,
                                       !.hasName = TRUE]
Continue(b) == [DefaultReply EXCEPT !.continueAfterError = b]
TrashFail(choice) == [DefaultReply EXCEPT !.trashFailChoice = choice]

\* The replies the handler of a session of kind hk builds for a request of kind pk.
\* A dismissed name dialog turns Rename into Cancel (MainFrame.cpp:1611-1612).
Replies(hk, pk) ==
  CASE hk = "CopyMove" /\ pk = "Exists" ->
         {Exists("Overwrite"), Exists("Skip"), Exists("Cancel")}
         \cup {RenameTo(n) : n \in RenameNames}
    [] hk = "CopyMove" /\ pk = "Error" -> {Continue(TRUE), Continue(FALSE)}
    [] hk = "CopyMove" ->
         {TrashFail("DeletePermanent"), TrashFail("Skip"), TrashFail("Cancel")}
    [] hk = "Trash" /\ pk = "TrashFailed" ->
         {TrashFail("DeletePermanent"), TrashFail("Skip"), TrashFail("Cancel")}
    [] hk = "Trash" /\ pk = "Error" -> {Continue(TRUE), Continue(FALSE)}
    [] hk = "Delete" /\ pk = "Error" -> {Continue(TRUE), Continue(FALSE)}
    [] hk = "Extract" -> {Continue(TRUE)}
    [] OTHER -> {DefaultReply}

\* The finished branch (MainFrame.cpp:1716-1730): stop the timer, join the worker,
\* destroy the dialog, reset fileOp_, start the next queued operation.
FinishedBranch(c, sid, f) ==
  StartNextQueuedOp([c EXCEPT !.fileOp = NoSession,
                              !.torn[sid] = c.torn[sid] + 1], f)

\* The rest of the handler (MainFrame.cpp:1647-1730): it samples the counters and
\* state->finished of the state it captured and updates the widgets of fileOp_.
RestOfTick(c, sid, f) == IF c.st[sid].finished THEN FinishedBranch(c, sid, f) ELSE c

\* worker.join() of the finished branch returns when the worker of fileOp_ has ended.
JoinReturns(c, sid) == (c.st[sid].finished /\ c.fileOp # NoSession) => c.wk.pc = "done"

\* The timer fires.  The handler copies state->prompt under the lock; if a request
\* is pending and none is being served it opens the decision dialog, else it runs
\* to its end.
Tick ==
  /\ InLoop
  /\ fileOp # NoSession
  /\ LET sid == fileOp.sid
         prompt == st[sid].prompt
         serve == prompt.kind # "none" /\ ~fileOp.promptActive
         c1 == IF serve
               THEN Push([Cur EXCEPT !.fileOp.promptActive = TRUE],
                         Frame("prompt", sid, fileOp.kind, NoOp, prompt))
               ELSE RestOfTick(Cur, sid, fs)
     IN /\ JoinReturns(Cur, sid)
        /\ NumDialogs(c1.uiStack) <= MaxNest
        /\ c1 # Cur
        /\ Commit(c1)
  /\ UNCHANGED <<fs, faults, submits, renames, manual>>

\* The decision dialog returns: the handler deposits the reply in the state it
\* captured, notifies, clears fileOp_->promptActive and runs to its end.  With
\* fileOp_ null these accesses are undefined behaviour: the process dies, or the
\* handler goes on.
PromptAnswer ==
  /\ ~crashed
  /\ uiStack # <<>>
  /\ Top.k = "prompt"
  /\ \E reply \in Replies(Top.hk, Top.prompt.kind) :
       /\ reply.existsChoice = "Rename" => renames < MaxRenames
       /\ renames' = IF reply.existsChoice = "Rename" THEN renames + 1 ELSE renames
       /\ LET sid == Top.sid
              c1 == Pop(Notify([Cur EXCEPT !.st[sid].reply =
                                       [reply EXCEPT !.asked = Top.prompt.path,
                                                     !.askedKind = Top.prompt.kind]], sid))
              c2 == IF fileOp = NoSession THEN c1
                    ELSE [c1 EXCEPT !.fileOp.promptActive = FALSE]
              c3 == RestOfTick(c2, sid, fs)
          IN /\ JoinReturns(c2, sid)
             /\ NumDialogs(c3.uiStack) <= MaxNest
             /\ IF fileOp = NoSession
                THEN \/ Commit([c1 EXCEPT !.crashed = TRUE])
                     \/ Commit(c3)
                ELSE Commit(c3)
  /\ UNCHANGED <<fs, faults, submits, manual>>

(***************************************************************************)
(* Worker thread: shared-state helpers.                                     *)
(***************************************************************************)
S == st[wk.sid]
Src == wk.sources[wk.i]
Filename(p) == p[Len(p)]
CancelRequested == S.cancelRequested

RECURSIVE SumSizes(_, _)
SumSizes(f, ps) ==
  IF ps = {} THEN 0
  ELSE LET p == CHOOSE q \in ps : TRUE
       IN (IF f[p].t = "file" THEN Len(f[p].data) ELSE 0) + SumSizes(f, ps \ {p})

\* SizeUnder reading a symbolic link as the file it points to.
SizeUnderFollowingLinks(f, p) ==
  LET size(q) == IF f[q].t = "file" THEN Len(f[q].data)
                 ELSE IF f[q].t = "link" /\ NodeAt(f, f[q].data).t = "file"
                 THEN Len(f[f[q].data].data)
                 ELSE 0
      links == {q \in Below(f, p) : f[q].t = "link"}
  IN IF p \notin DOMAIN f THEN 0
     ELSE IF f[p].t = "dir"
     THEN SumSizes(f, Below(f, p)) + SumSizes(f, {f[q].data : q \in links} \cap DOMAIN f)
     ELSE size(p)

\* MainFrame.cpp EstimateTotalBytes, one source: the sizes of the regular files at
\* or below p (symlink_status: links are not followed).
SizeUnder(f, p) ==
  IF p \notin DOMAIN f THEN 0
  ELSE IF f[p].t = "dir" THEN SumSizes(f, Below(f, p))
  ELSE IF f[p].t = "file" THEN Len(f[p].data)
  ELSE 0

\* CountDone with the counter bumped twice for one source.
CountDoneTwice(w, s) ==
  [w |-> [IdleWorker EXCEPT !.sid = w.sid, !.kind = w.kind, !.move = w.move,
                            !.sources = w.sources, !.dstDir = w.dstDir,
                            !.pc = w.pc, !.i = w.i + 1, !.confirms = w.confirms],
   s |-> [s EXCEPT !.done = s.done + 2]]

\* state->done.fetch_add(1); continue.  The locals of the iteration end here.
CountDone(w, s) ==
  [w |-> [IdleWorker EXCEPT !.sid = w.sid, !.kind = w.kind, !.move = w.move,
                            !.sources = w.sources, !.dstDir = w.dstDir,
                            !.pc = w.pc, !.i = w.i + 1, !.confirms = w.confirms],
   s |-> [s EXCEPT !.done = s.done + 1]]

\* The worker posts a decision request and enters cv.wait (MainFrame.cpp:1513-1517).
PostPrompt(s, kind, path, errorMessage) ==
  [s EXCEPT !.prompt = [kind |-> kind, path |-> path, errorMessage |-> errorMessage],
            !.reply = NoReply]

\* The wait returning whatever the mailbox holds.
WaitOverAlways(s) == TRUE

\* The predicate of cv.wait.
WaitOver(s) == s.reply.has \/ s.cancelRequested

\* cv.wait(lock, pred) blocks only when pred is false on entry.
BeginWait(w, s, pc) == [w EXCEPT !.pc = pc, !.blocked = ~WaitOver(s)]

\* A step of the worker: its locals, the shared state, the filesystem.  The state
\* object goes with the thread's end unless something else points to it.
WorkerStepF(w, s, f, fault) ==
  /\ wk' = w
  /\ st' = LET st1 == [st EXCEPT ![wk.sid] = s]
               live == Live([Cur EXCEPT !.wk = w])
           IN [sid \in (DOMAIN st1) \cap live |-> st1[sid]]
  /\ fs' = f
  /\ faults' = IF fault THEN faults + 1 ELSE faults
  /\ UNCHANGED <<fileOp, nextSid, opQueue, nextOpId, uiStack, crashed, torn, submits,
                 renames, startLog, manual>>

WorkerStep(w, s, f) == WorkerStepF(w, s, f, FALSE)

\* The outcomes of a system call: it can fail although it could succeed.
Outcomes(canSucceed) ==
  IF ~canSucceed THEN {FALSE}
  ELSE IF faults < MaxFaults THEN {TRUE, FALSE} ELSE {TRUE}

At(pc) == ~crashed /\ wk.pc = pc

LoopPc(kind) ==
  CASE kind = "CopyMove" -> "loop"
    [] kind = "Trash" -> "tloop"
    [] OTHER -> "dloop"

(***************************************************************************)
(* Worker thread of a copy/move session (MainFrame.cpp:1458-1591).          *)
(***************************************************************************)
\* Scan phase, one source per step (MainFrame.cpp:1470-1485, EstimateTotalBytes).
WScan ==
  /\ At("scan")
  /\ LET canScan == \A k \in 1..Len(wk.sources) : ~LooksLikeUriString(wk.sources[k])
     IN IF canScan /\ wk.i <= Len(wk.sources) /\ ~CancelRequested
        THEN WorkerStep([wk EXCEPT !.total = wk.total + SizeUnder(fs, Src), !.i = wk.i + 1],
                        S, fs)
        ELSE WorkerStep([wk EXCEPT !.pc = "loop", !.i = 1, !.total = 0],
                        [S EXCEPT !.totalBytes = IF canScan THEN wk.total ELSE 0,
                                  !.scanDone = TRUE], fs)

\* WLoop passing over an empty or missing source without counting it.
WLoopUncounted ==
  /\ At("loop")
  /\ IF wk.i > Len(wk.sources) \/ CancelRequested
     THEN WorkerStep([wk EXCEPT !.pc = "fin"], S, fs)
     ELSE IF Src = EmptyPath \/ ~PathExistsAny(fs, Src)
     THEN WorkerStep([wk EXCEPT !.i = wk.i + 1], S, fs)
     ELSE WorkerStep([wk EXCEPT !.pc = "conflict", !.skipItem = FALSE, !.pre = fs,
                                !.dst = JoinDirAndNameAny(wk.dstDir, Filename(Src))],
                     S, fs)

\* Top of the per-source loop (MainFrame.cpp:1487-1505).
WLoop ==
  /\ At("loop")
  /\ IF wk.i > Len(wk.sources) \/ CancelRequested
     THEN WorkerStep([wk EXCEPT !.pc = "fin"], S, fs)
     ELSE IF Src = EmptyPath \/ ~PathExistsAny(fs, Src)
     THEN LET r == CountDone(wk, S) IN WorkerStep(r.w, r.s, fs)
     ELSE WorkerStep([wk EXCEPT !.pc = "conflict", !.skipItem = FALSE, !.pre = fs,
                                !.dst = JoinDirAndNameAny(wk.dstDir, Filename(Src))],
                     S, fs)

\* Conflict loop, up to the wait (MainFrame.cpp:1509-1517).
WConflict ==
  /\ At("conflict")
  /\ IF CancelRequested \/ ~PathExistsAny(fs, wk.dst)
     THEN WorkerStep([wk EXCEPT !.pc = "post"], S, fs)
     ELSE LET s1 == PostPrompt(S, "Exists", wk.dst, "")
          IN WorkerStep(BeginWait(wk, s1, "wait"), s1, fs)

\* ExistsOutcome with Skip falling through to the copy.
ExistsOutcomeSkipProceeds(reply) ==
  CASE reply.existsChoice = "Cancel" -> "cancel"
    [] reply.existsChoice = "Rename" -> IF reply.hasName THEN "rename" ELSE "cancel"
    [] OTHER -> "proceed"

\* The decision taken from an Exists reply (MainFrame.cpp:1524-1540): what the worker
\* does next with the item.
ExistsOutcome(reply) ==
  CASE reply.existsChoice = "Skip" -> "skip"
    [] reply.existsChoice = "Cancel" -> "cancel"
    [] reply.existsChoice = "Rename" -> IF reply.hasName THEN "rename" ELSE "cancel"
    [] OTHER -> "proceed"

\* WWake taking the new name without checking it again.
WWakeNoRecheck ==
  /\ At("wait")
  /\ ~wk.blocked
  /\ WaitOver(S)
  /\ IF CancelRequested
     THEN WorkerStep([wk EXCEPT !.pc = "fin"], S, fs)
     ELSE LET reply == S.reply
              s1 == [S EXCEPT !.prompt = NoPrompt, !.reply = NoReply]
              what == ExistsOutcome(reply)
              w1 == [wk EXCEPT !.choice = reply.existsChoice]
          IN CASE what = "skip" -> WorkerStep([w1 EXCEPT !.pc = "post", !.skipItem = TRUE], s1, fs)
               [] what = "cancel" ->
                    WorkerStep([w1 EXCEPT !.pc = "post"], [s1 EXCEPT !.cancelRequested = TRUE], fs)
               [] what = "rename" ->
                    WorkerStep([w1 EXCEPT !.pc = "post",
                                          !.dst = JoinDirAndNameAny(wk.dstDir, reply.renameTo)],
                               s1, fs)
               [] OTHER -> WorkerStep([w1 EXCEPT !.pc = "post"], s1, fs)

\* The worker wakes from the wait of the conflict loop (MainFrame.cpp:1517-1541).
WWake ==
  /\ At("wait")
  /\ ~wk.blocked
  /\ WaitOver(S)
  /\ IF CancelRequested
     THEN WorkerStep([wk EXCEPT !.pc = "fin"], S, fs)
     ELSE LET reply == S.reply
              s1 == [S EXCEPT !.prompt = NoPrompt, !.reply = NoReply]
              what == ExistsOutcome(reply)
              w1 == [wk EXCEPT !.choice = reply.existsChoice]
          IN CASE what = "skip" -> WorkerStep([w1 EXCEPT !.pc = "post", !.skipItem = TRUE], s1, fs)
               [] what = "cancel" ->
                    WorkerStep([w1 EXCEPT !.pc = "post"], [s1 EXCEPT !.cancelRequested = TRUE], fs)
               [] what = "rename" ->
                    WorkerStep([w1 EXCEPT !.pc = "conflict",
                                          !.dst = JoinDirAndNameAny(wk.dstDir, reply.renameTo)],
                               s1, fs)
               [] OTHER -> WorkerStep([w1 EXCEPT !.pc = "post"], s1, fs)

\* WPost without the test of skipItem.
WPostIgnoreSkip ==
  /\ At("post")
  /\ IF CancelRequested
     THEN WorkerStep([wk EXCEPT !.pc = "fin"], S, fs)
     ELSE WorkerStep([wk EXCEPT !.pc = "backend"], S, fs)

\* After the conflict loop (MainFrame.cpp:1543-1547).
WPost ==
  /\ At("post")
  /\ IF CancelRequested
     THEN WorkerStep([wk EXCEPT !.pc = "fin"], S, fs)
     ELSE IF wk.skipItem
     THEN LET r == CountDone([wk EXCEPT !.pc = "loop"], S) IN WorkerStep(r.w, r.s, fs)
     ELSE WorkerStep([wk EXCEPT !.pc = "backend"], S, fs)


(***************************************************************************)
(* Backend operations of util.cpp on local paths.                           *)
(***************************************************************************)
Rel(q, base) == SubSeq(q, Len(base) + 1, Len(q))

\* fs::rename(src, dst) can succeed: a non-directory replaces a non-directory, a
\* directory replaces an empty directory, and the parent of dst is a directory.
RenameOk(f, src, dst) ==
  /\ src \in DOMAIN f
  /\ IsDirectoryAny(f, Parent(dst))
  /\ ~(IsPrefix(src, dst) /\ src # dst)
  /\ IF f[src].t = "dir"
     THEN dst \notin DOMAIN f \/ (f[dst].t = "dir" /\ Below(f, dst) = {})
     ELSE dst \notin DOMAIN f \/ f[dst].t # "dir"

\* The filesystem after a successful fs::rename(src, dst).
MoveTree(f, src, dst) ==
  IF src = dst THEN f
  ELSE LET keep == {q \in DOMAIN f : ~IsPrefix(src, q) /\ ~IsPrefix(dst, q)}
           moved == {dst \o Rel(q, src) : q \in {r \in DOMAIN f : IsPrefix(src, r)}}
       IN [q \in keep \cup moved |->
             IF q \in moved THEN f[src \o Rel(q, dst)] ELSE f[q]]

\* util.cpp:488-502: the destination lies strictly inside the source.
InsideSource(src, dst) == Len(dst) > Len(src) /\ IsPrefix(src, dst)

\* Return sending a failed copy of the move fallback on to the delete phase.
ReturnThenDelete(w, res) ==
  IF w.phase \in {"movecopy", "giomovecopy"}
  THEN [w EXCEPT !.pc = "movedel"]
  ELSE [w EXCEPT !.pc = "result", !.result = res, !.phase = "none"]

\* Return from the copy: a successful copy inside MovePath or inside the fallback
\* of GioMoveAny goes on to the delete phase (util.cpp:682-686, 346-355), anything
\* else is the result of the backend call.
Return(w, res) ==
  IF res = "ok" /\ w.phase \in {"movecopy", "giomovecopy"}
  THEN [w EXCEPT !.pc = "movedel"]
  ELSE [w EXCEPT !.pc = "result", !.result = res, !.phase = "none"]

\* util.cpp:478, 670: a URI on either side sends the call to GIO.
Uri(w) == LooksLikeUriString(w.sources[w.i]) \/ LooksLikeUriString(w.dst)

\* GioCopyRecursive / g_file_copy starts on one file (util.cpp:246-262).
GioFile(w, src, dst) ==
  [w EXCEPT !.pc = "gio", !.cur = src, !.out = dst, !.lastBytes = 0, !.off = 0]

\* fs::copy with copy_symlinks (util.cpp:568-570, 593-595) copies a symbolic link
\* to a place where nothing is; it fails on a special file.
CanCopySymlink(f, src, dst) == f[src].t = "link" /\ dst \notin DOMAIN f

\* CopyPathRecursiveImpl up to the first entry (util.cpp:471-531, 582-589), and
\* GioCopyAny / GioCopyRecursive up to the first entry (util.cpp:128-160, 382-405).
CopyStart(w, s, f) ==
  LET src == w.sources[w.i]
      dst == w.dst
  IN IF ~Uri(w) /\ InsideSource(src, dst) THEN [w |-> Return(w, "error"), f |-> f]
     ELSE IF s.cancelRequested THEN [w |-> Return(w, "Canceled"), f |-> f]
     ELSE IF src \notin DOMAIN f THEN [w |-> Return(w, "error"), f |-> f]
     ELSE IF f[src].t = "dir"
     THEN IF ~CanCreateDirs(f, dst) THEN [w |-> Return(w, "error"), f |-> f]
          ELSE [w |-> [w EXCEPT !.pc = "entries", !.todo = Below(f, src)],
                f |-> CreateDirs(f, dst)]
     ELSE IF Uri(w) THEN [w |-> GioFile(w, src, dst), f |-> f]
     ELSE IF ~CanCreateDirs(f, Parent(dst)) THEN [w |-> Return(w, "error"), f |-> f]
     ELSE IF f[src].t = "file"
          THEN [w |-> [w EXCEPT !.pc = "open", !.cur = src, !.out = dst],
                f |-> CreateDirs(f, Parent(dst))]
     ELSE IF CanCopySymlink(f, src, dst)
          THEN [w |-> Return(w, "ok"), f |-> Put(CreateDirs(f, Parent(dst)), dst, f[src])]
          ELSE [w |-> Return(w, "error"), f |-> CreateDirs(f, Parent(dst))]

\* GioMoveAny up to g_file_move (util.cpp:281-327).
GioMoveStart(w, s, f) ==
  IF s.cancelRequested THEN Return(w, "Canceled")
  ELSE IF w.sources[w.i] \notin DOMAIN f THEN Return(w, "error")
  ELSE GioFile([w EXCEPT !.phase = "giomove"], w.sources[w.i], w.dst)

\* The backend call starts (MainFrame.cpp:1563-1564): MovePath tries fs::rename
\* first and falls back to copy and delete on any error (util.cpp:677-682).
WBackend ==
  /\ At("backend")
  /\ IF wk.move /\ Uri(wk)
     THEN WorkerStep(GioMoveStart(wk, S, fs), S, fs)
     ELSE IF wk.move
     THEN \E renamed \in Outcomes(RenameOk(fs, Src, wk.dst)) :
            IF renamed
            THEN WorkerStep(Return(wk, "ok"), S, MoveTree(fs, Src, wk.dst))
            ELSE LET r == CopyStart([wk EXCEPT !.phase = "movecopy"], S, fs)
                 IN WorkerStepF(r.w, S, r.f, RenameOk(fs, Src, wk.dst))
     ELSE LET r == CopyStart([wk EXCEPT !.phase = "copy"], S, fs)
          IN WorkerStep(r.w, S, r.f)

\* WEntries without the test of the cancel request.
WEntriesNoCancel ==
  /\ At("entries")
  /\ IF wk.todo = {} THEN WorkerStep(Return(wk, "ok"), S, fs)
     ELSE \E e \in {q \in wk.todo : Parent(q) \notin wk.todo} :
            LET out == wk.dst \o Rel(e, Src)
                w1 == [wk EXCEPT !.todo = wk.todo \ {e}]
            IN IF e \notin DOMAIN fs THEN WorkerStep(Return(w1, "error"), S, fs)
               ELSE IF fs[e].t = "dir"
               THEN IF CanCreateDirs(fs, out)
                    THEN WorkerStep(w1, S, CreateDirs(fs, out))
                    ELSE WorkerStep(Return(w1, "error"), S, fs)
               ELSE IF Uri(wk) THEN WorkerStep(GioFile(w1, e, out), S, fs)
               ELSE IF fs[e].t = "other" THEN WorkerStep(w1, S, fs)
               ELSE IF ~CanCreateDirs(fs, Parent(out))
                    THEN WorkerStep(Return(w1, "error"), S, fs)
               ELSE IF fs[e].t = "file"
                    THEN WorkerStep([w1 EXCEPT !.pc = "open", !.cur = e, !.out = out],
                                    S, CreateDirs(fs, Parent(out)))
               ELSE IF CanCopySymlink(fs, e, out)
                    THEN WorkerStep(w1, S, Put(CreateDirs(fs, Parent(out)), out, fs[e]))
                    ELSE WorkerStep(Return(w1, "error"), S, CreateDirs(fs, Parent(out)))

\* One entry of the recursive_directory_iterator loop (util.cpp:533-576): a
\* directory is created, a regular file is copied in chunks, a symbolic link is
\* copied as a link, any other entry is passed over.
WEntries ==
  /\ At("entries")
  /\ IF CancelRequested THEN WorkerStep(Return(wk, "Canceled"), S, fs)
     ELSE IF wk.todo = {} THEN WorkerStep(Return(wk, "ok"), S, fs)
     ELSE \E e \in {q \in wk.todo : Parent(q) \notin wk.todo} :
            LET out == wk.dst \o Rel(e, Src)
                w1 == [wk EXCEPT !.todo = wk.todo \ {e}]
            IN IF e \notin DOMAIN fs THEN WorkerStep(Return(w1, "error"), S, fs)
               ELSE IF fs[e].t = "dir"
               THEN IF CanCreateDirs(fs, out)
                    THEN WorkerStep(w1, S, CreateDirs(fs, out))
                    ELSE WorkerStep(Return(w1, "error"), S, fs)
               ELSE IF Uri(wk) THEN WorkerStep(GioFile(w1, e, out), S, fs)
               ELSE IF fs[e].t = "other" THEN WorkerStep(w1, S, fs)
               ELSE IF ~CanCreateDirs(fs, Parent(out))
                    THEN WorkerStep(Return(w1, "error"), S, fs)
               ELSE IF fs[e].t = "file"
                    THEN WorkerStep([w1 EXCEPT !.pc = "open", !.cur = e, !.out = out],
                                    S, CreateDirs(fs, Parent(out)))
               ELSE IF CanCopySymlink(fs, e, out)
                    THEN WorkerStep(w1, S, Put(CreateDirs(fs, Parent(out)), out, fs[e]))
                    ELSE WorkerStep(Return(w1, "error"), S, CreateDirs(fs, Parent(out)))

\* WOpen opening the destination without std::ios::trunc.
WOpenNoTrunc ==
  /\ At("open")
  /\ IF CancelRequested THEN WorkerStep(Return(wk, "Canceled"), S, fs)
     ELSE IF ~CanCreateDirs(fs, Parent(wk.out)) \/ NodeAt(fs, wk.cur).t # "file"
     THEN WorkerStep(Return(wk, "error"), S, fs)
     ELSE \E opened \in Outcomes(NodeAt(fs, wk.out).t # "dir") :
            IF opened
            THEN WorkerStep([wk EXCEPT !.pc = "chunk", !.off = 0], S,
                            IF NodeAt(fs, wk.out).t = "file" THEN fs
                            ELSE Put(CreateDirs(fs, Parent(wk.out)), wk.out, FileNode(<<>>)))
            ELSE WorkerStepF(Return(wk, "error"), S, fs, NodeAt(fs, wk.out).t # "dir")

\* CopyRegularFileChunked up to the loop (util.cpp:421-436): the destination is
\* opened with std::ios::trunc.
WOpen ==
  /\ At("open")
  /\ IF CancelRequested THEN WorkerStep(Return(wk, "Canceled"), S, fs)
     ELSE IF ~CanCreateDirs(fs, Parent(wk.out)) \/ NodeAt(fs, wk.cur).t # "file"
     THEN WorkerStep(Return(wk, "error"), S, fs)
     ELSE \E opened \in Outcomes(NodeAt(fs, wk.out).t # "dir") :
            IF opened
            THEN WorkerStep([wk EXCEPT !.pc = "chunk", !.off = 0], S,
                            Put(CreateDirs(fs, Parent(wk.out)), wk.out, FileNode(<<>>)))
            ELSE WorkerStepF(Return(wk, "error"), S, fs, NodeAt(fs, wk.out).t # "dir")

\* The file is complete: back to the entry loop, or the copy of a single file ends.
AfterFile(w) == IF w.cur = w.sources[w.i] THEN Return(w, "ok") ELSE [w EXCEPT !.pc = "entries"]

\* onBytes (MainFrame.cpp:1559-1561): state->bytesDone.fetch_add(bytesDelta).
OnBytes(s, bytesDelta) == [s EXCEPT !.bytesDone = s.bytesDone + bytesDelta]

\* WChunk returning Canceled without removing the destination file.
WChunkKeepsPartial ==
  /\ At("chunk")
  /\ IF CancelRequested
     THEN WorkerStep(Return(wk, "Canceled"), S, fs)
     ELSE LET in == NodeAt(fs, wk.cur)
              data == IF in.t = "file" THEN in.data ELSE <<>>
          IN IF wk.off >= Len(data) \/ NodeAt(fs, wk.out).t # "file"
             THEN WorkerStep(AfterFile(wk), S, fs)
             ELSE \E written \in Outcomes(TRUE) :
                    IF written
                    THEN LET f1 == Put(fs, wk.out,
                                       FileNode(Append(fs[wk.out].data, data[wk.off + 1])))
                             w1 == [wk EXCEPT !.off = wk.off + 1]
                         IN WorkerStep(IF wk.off + 1 = Len(data) THEN AfterFile(w1) ELSE w1,
                                       OnBytes(S, 1), f1)
                    ELSE WorkerStepF(Return(wk, "error"), S, fs, TRUE)

\* One iteration of the chunk loop (util.cpp:443-463); a chunk is one unit of size.
\* The last chunk of a file is short, so the stream ends with it.  A failed write
\* returns "Write failed." and leaves what was written (util.cpp:454-457).
WChunk ==
  /\ At("chunk")
  /\ IF CancelRequested
     THEN WorkerStep(Return(wk, "Canceled"), S, RemoveAll(fs, wk.out))
     ELSE LET in == NodeAt(fs, wk.cur)
              data == IF in.t = "file" THEN in.data ELSE <<>>
          IN IF wk.off >= Len(data) \/ NodeAt(fs, wk.out).t # "file"
             THEN WorkerStep(AfterFile(wk), S, fs)
             ELSE \E written \in Outcomes(TRUE) :
                    IF written
                    THEN LET f1 == Put(fs, wk.out,
                                       FileNode(Append(fs[wk.out].data, data[wk.off + 1])))
                             w1 == [wk EXCEPT !.off = wk.off + 1]
                         IN WorkerStep(IF wk.off + 1 = Len(data) THEN AfterFile(w1) ELSE w1,
                                       OnBytes(S, 1), f1)
                    ELSE WorkerStepF(Return(wk, "error"), S, fs, TRUE)

\* GioProgressCallback without the test cur >= lastBytes.
GioProgressCallbackUnguarded(lastBytes, s, current_num_bytes) ==
  IF s.cancelRequested THEN [lastBytes |-> lastBytes, s |-> s]
  ELSE LET cur == IF current_num_bytes > 0 THEN current_num_bytes ELSE 0
       IN [lastBytes |-> cur, s |-> OnBytes(s, cur - lastBytes)]

\* GioProgressCallback (util.cpp:42-63) on the context's lastBytes and the state.
GioProgressCallback(lastBytes, s, current_num_bytes) ==
  IF s.cancelRequested THEN [lastBytes |-> lastBytes, s |-> s]
  ELSE LET cur == IF current_num_bytes > 0 THEN current_num_bytes ELSE 0
       IN IF cur >= lastBytes
          THEN [lastBytes |-> cur, s |-> OnBytes(s, cur - lastBytes)]
          ELSE [lastBytes |-> lastBytes, s |-> s]

\* The byte counts GIO may report: any, in any order.
GioReports == {-1, 1, 2}

\* g_file_copy / g_file_move calls the progress callback (util.cpp:211-217, 262-268).
WGioProgress ==
  /\ At("gio")
  /\ wk.off < MaxReports
  /\ \E current_num_bytes \in GioReports :
       LET r == GioProgressCallback(wk.lastBytes, S, current_num_bytes)
       IN WorkerStep([wk EXCEPT !.lastBytes = r.lastBytes, !.off = wk.off + 1], r.s, fs)

\* g_file_copy can succeed: a file is copied to a place that is not a directory.
GioCanCopy(f, src, dst) ==
  NodeAt(f, src).t = "file" /\ NodeAt(f, dst).t # "dir" /\ IsDirectoryAny(f, Parent(dst))

\* g_file_copy / g_file_move returns (util.cpp:262-278, 322-378).  The watcher
\* thread cancels the call once cancel is requested; the call may have ended first.
\* g_file_move failing with NOT_SUPPORTED or NOT_MOUNTED falls back to
\* GioCopyRecursive and GioDeleteRecursive (util.cpp:344-362).
WGioDone ==
  /\ At("gio")
  /\ \/ /\ CancelRequested
        /\ WorkerStep(Return(wk, "Canceled"), S, fs)
     \/ /\ wk.phase = "giomove"
        /\ faults < MaxFaults
        /\ WorkerStepF(GioFile([wk EXCEPT !.phase = "giomovecopy"], wk.cur, wk.out), S, fs, TRUE)
     \/ \E copied \in Outcomes(GioCanCopy(fs, wk.cur, wk.out)) :
          IF copied
          THEN WorkerStep(AfterFile(wk), S,
                          IF wk.phase = "giomove" THEN MoveTree(fs, wk.cur, wk.out)
                          ELSE Put(fs, wk.out, fs[wk.cur]))
          ELSE WorkerStepF(Return(wk, "error"), S, fs, GioCanCopy(fs, wk.cur, wk.out))

\* DeletePath (util.cpp:744-763).  fs::remove_all of a path that does not exist
\* succeeds; GioDeleteRecursive ends in g_file_delete, which fails on a file that
\* does not exist (util.cpp:118-125).  On something that exists either can fail.
DeleteOutcomes(f, p) ==
  IF p \in DOMAIN f THEN Outcomes(TRUE)
  ELSE IF LooksLikeUriString(p) THEN {FALSE}
  ELSE {TRUE}

\* The delete phase of the move fallback (util.cpp:684-688): MovePath tests the
\* cancel request first.  GioMoveAny (util.cpp:354-355) does not; its delete fails
\* once the watcher thread has cancelled the cancellable.
WMoveDelete ==
  /\ At("movedel")
  /\ LET w1 == [wk EXCEPT !.phase = "none"]
     IN \/ /\ CancelRequested
           /\ WorkerStep(Return(w1, IF wk.phase = "giomovecopy" THEN "error" ELSE "Canceled"),
                         S, fs)
        \/ /\ ~CancelRequested \/ wk.phase = "giomovecopy"
           /\ \E deleted \in DeleteOutcomes(fs, Src) :
                 IF deleted THEN WorkerStep(Return(w1, "ok"), S, RemoveAll(fs, Src))
                 ELSE WorkerStepF(Return(w1, "error"), S, fs, Src \in DOMAIN fs)

\* WResult ending the run on a failure without asking.
WResultAbort ==
  /\ At("result")
  /\ IF wk.result # "ok"
     THEN WorkerStep([wk EXCEPT !.pc = "fin"], S, fs)
     ELSE LET r == CountDone([wk EXCEPT !.pc = "loop"], S) IN WorkerStep(r.w, r.s, fs)

\* The result of the backend call (MainFrame.cpp:1565-1585).
WResult ==
  /\ At("result")
  /\ IF CancelRequested /\ wk.result = "Canceled"
     THEN WorkerStep([wk EXCEPT !.pc = "fin"], S, fs)
     ELSE IF wk.result # "ok"
     THEN LET s1 == PostPrompt(S, "Error", wk.dst, wk.result)
          IN WorkerStep(BeginWait(wk, s1, "errwait"), s1, fs)
     ELSE LET r == CountDone([wk EXCEPT !.pc = "loop"], S) IN WorkerStep(r.w, r.s, fs)

\* The worker wakes from the wait on an Error request (MainFrame.cpp:1573-1585,
\* 1957-1970, 2257-2269).
WErrWake ==
  /\ At("errwait")
  /\ ~wk.blocked
  /\ WaitOver(S)
  /\ IF CancelRequested
     THEN WorkerStep([wk EXCEPT !.pc = "fin"], S, fs)
     ELSE LET reply == S.reply
              s1 == [S EXCEPT !.prompt = NoPrompt, !.reply = NoReply]
          IN IF ~reply.continueAfterError
             THEN WorkerStep([wk EXCEPT !.pc = "fin"], [s1 EXCEPT !.cancelRequested = TRUE], fs)
             ELSE LET r == CountDone([wk EXCEPT !.pc = LoopPc(wk.kind)], s1)
                  IN WorkerStep(r.w, r.s, fs)

\* The worker's last statements (MainFrame.cpp:1588-1590): finished = true.
WFinish ==
  /\ At("fin")
  /\ WorkerStep([IdleWorker EXCEPT !.sid = wk.sid], [S EXCEPT !.finished = TRUE], fs)


(***************************************************************************)
(* Worker thread of a trash session (MainFrame.cpp:1910-1976).              *)
(***************************************************************************)
\* Top of the loop (MainFrame.cpp:1912-1917).
WTrashLoop ==
  /\ At("tloop")
  /\ IF wk.i > Len(wk.sources) \/ CancelRequested
     THEN WorkerStep([wk EXCEPT !.pc = "fin"], S, fs)
     ELSE IF Src = EmptyPath
     THEN LET r == CountDone(wk, S) IN WorkerStep(r.w, r.s, fs)
     ELSE WorkerStep([wk EXCEPT !.pc = "tcall"], S, fs)

\* TrashPath can succeed (util.cpp:769-845): not cancelled, the path exists.
TrashCanSucceed(f, p, s) == ~s.cancelRequested /\ p \in DOMAIN f /\ ~LooksLikeUriString(p)

\* TrashPath and, when it fails, the TrashFailed request (MainFrame.cpp:1925-1933).
WTrashCall ==
  /\ At("tcall")
  /\ \E trashed \in Outcomes(TrashCanSucceed(fs, Src, S)) :
       IF trashed
       THEN LET r == CountDone([wk EXCEPT !.pc = "tloop"], S)
            IN WorkerStep(r.w, r.s, RemoveAll(fs, Src))
       ELSE LET s1 == PostPrompt(S, "TrashFailed", Src, "error")
            IN WorkerStepF(BeginWait(wk, s1, "twait"), s1, fs, TrashCanSucceed(fs, Src, S))

\* The worker wakes from the wait on a TrashFailed request (MainFrame.cpp:1933-1947).
WTrashWake ==
  /\ At("twait")
  /\ ~wk.blocked
  /\ WaitOver(S)
  /\ IF CancelRequested
     THEN WorkerStep([wk EXCEPT !.pc = "fin"], S, fs)
     ELSE LET reply == S.reply
              s1 == [S EXCEPT !.prompt = NoPrompt, !.reply = NoReply]
          IN CASE reply.trashFailChoice = "Skip" ->
                    LET r == CountDone([wk EXCEPT !.pc = "tloop"], s1)
                    IN WorkerStep(r.w, r.s, fs)
               [] reply.trashFailChoice = "Cancel" ->
                    WorkerStep([wk EXCEPT !.pc = "fin"], [s1 EXCEPT !.cancelRequested = TRUE], fs)
               [] OTHER -> WorkerStep([wk EXCEPT !.pc = "tdel"], s1, fs)

\* The worker locks state->mu while it holds it (MainFrame.cpp:1926, 1951: lock is
\* still in scope where lock2 is constructed).  That is undefined behaviour; when
\* lock() never returns the worker keeps the mutex and the UI thread stops in the
\* next handler that locks it.
WorkerHangs(fault) ==
  /\ wk' = [wk EXCEPT !.pc = "hung"]
  /\ crashed' = TRUE
  /\ faults' = IF fault THEN faults + 1 ELSE faults
  /\ UNCHANGED <<fileOp, st, nextSid, opQueue, nextOpId, uiStack, fs, torn, submits,
                 renames, startLog, manual>>

\* Permanent delete after a failed trash (MainFrame.cpp:1949-1957, 1970).  When it
\* fails the Error request is posted under a second lock of the mutex: the lock
\* is granted, or the worker hangs.
WTrashDelete ==
  /\ At("tdel")
  /\ \E deleted \in DeleteOutcomes(fs, Src) :
       IF deleted
       THEN LET r == CountDone([wk EXCEPT !.pc = "tloop"], S)
            IN WorkerStep(r.w, r.s, RemoveAll(fs, Src))
       ELSE \/ LET s1 == PostPrompt(S, "Error", Src, "error")
               IN WorkerStepF(BeginWait(wk, s1, "errwait"), s1, fs, Src \in DOMAIN fs)
            \/ WorkerHangs(Src \in DOMAIN fs)

(***************************************************************************)
(* Worker thread of a delete session (MainFrame.cpp:2235-2275).             *)
(***************************************************************************)
\* Top of the loop and the call of DeletePath (MainFrame.cpp:2236-2258).  A source
\* without entries below it goes in one step; for a directory with entries
\* fs::remove_all / GioDeleteRecursive starts its walk.
WDeleteLoop ==
  /\ At("dloop")
  /\ IF wk.i > Len(wk.sources) \/ CancelRequested
     THEN WorkerStep([wk EXCEPT !.pc = "fin"], S, fs)
     ELSE IF Src = EmptyPath
     THEN LET r == CountDone(wk, S) IN WorkerStep(r.w, r.s, fs)
     ELSE \E deleted \in DeleteOutcomes(fs, Src) :
            IF deleted
            THEN IF Below(fs, Src) = {}
                 THEN LET r == CountDone(wk, S) IN WorkerStep(r.w, r.s, RemoveAll(fs, Src))
                 ELSE WorkerStep([wk EXCEPT !.pc = "ddel", !.cur = EmptyPath], S, fs)
            ELSE LET s1 == PostPrompt(S, "Error", Src, "error")
                 IN WorkerStepF(BeginWait(wk, s1, "errwait"), s1, fs, Src \in DOMAIN fs)

\* The entries a depth-first walk below src can remove next, last being the entry
\* it removed before: an entry with nothing below it, inside the directory the
\* walk is in.
NextToRemove(f, src, last) ==
  LET leaves == {e \in Below(f, src) : Below(f, e) = {}}
      dir == Parent(last)
  IN IF last # EmptyPath /\ dir # src /\ dir \in DOMAIN f
     THEN {e \in leaves : IsPrefix(dir, e)}
     ELSE leaves

\* DeletePath inside a directory source (util.cpp:744-763, 65-126): one entry is
\* removed per step, children before their directory, the source itself last.
\* DeletePath takes no cancel function; the GCancellable it makes for
\* GioDeleteRecursive is cancelled by nobody.
WDeleteEntry ==
  /\ At("ddel")
  /\ IF Below(fs, Src) = {}
     THEN LET r == CountDone([wk EXCEPT !.pc = "dloop"], S)
          IN WorkerStep(r.w, r.s, RemoveAll(fs, Src))
     ELSE \E e \in NextToRemove(fs, Src, wk.cur) :
            WorkerStep([wk EXCEPT !.cur = e], S, RemoveAll(fs, e))

(***************************************************************************)
(* Worker thread of an extract session (MainFrame.cpp:2503-2535).           *)
(***************************************************************************)
\* wxExecute returns; a non-zero exit code posts an Error request.
WExec ==
  /\ At("exec")
  /\ \E extracted \in Outcomes(TRUE) :
       IF extracted THEN WorkerStep([wk EXCEPT !.pc = "xdone"], S, fs)
       ELSE LET s1 == PostPrompt(S, "Error", EmptyPath, "error")
            IN WorkerStepF(BeginWait(wk, s1, "xwait"), s1, fs, TRUE)

\* The wait ends; request and reply are cleared whatever ended it (2526-2528).
WExecWake ==
  /\ At("xwait")
  /\ ~wk.blocked
  /\ WaitOver(S)
  /\ WorkerStep([wk EXCEPT !.pc = "xdone"], [S EXCEPT !.prompt = NoPrompt, !.reply = NoReply], fs)

\* state->done.store(1) (MainFrame.cpp:2530).
WExecDone ==
  /\ At("xdone")
  /\ WorkerStep([wk EXCEPT !.pc = "fin"], [S EXCEPT !.done = 1], fs)

\* A condition variable may wake its waiter at any time; the waiter goes on only
\* when the predicate holds. The Cancel button of an extract session sets the flag
\* without notifying (MainFrame.cpp:2495-2499).
SpuriousWake ==
  /\ ~crashed
  /\ wk.blocked
  /\ WaitOver(S)
  /\ WorkerStep([wk EXCEPT !.blocked = FALSE], S, fs)

\* The steps the worker thread takes when it is scheduled.
WorkerRuns ==
  \/ WScan \/ WLoop \/ WConflict \/ WWake \/ WPost
  \/ WBackend \/ WEntries \/ WOpen \/ WChunk \/ WGioProgress \/ WGioDone
  \/ WMoveDelete \/ WResult \/ WErrWake
  \/ WTrashLoop \/ WTrashCall \/ WTrashWake \/ WTrashDelete
  \/ WDeleteLoop \/ WDeleteEntry
  \/ WExec \/ WExecWake \/ WExecDone
  \/ WFinish

Worker == WorkerRuns \/ SpuriousWake


(***************************************************************************)
(* UI thread: the context menu of a file panel (FilePanel.cpp:2239-2387,    *)
(* 2826-2834).  Its actions call the backends on the UI thread; the         *)
(* selection and the clipboard hold one path.                               *)
(***************************************************************************)
\* The entry the context menu acts on, the clipboard (CopySelection of the same
\* entry) and the directory the panel shows.
PanelPaths == {FileA}
PanelDir == DstDir

\* FilePanel::TrashSelection, FilePanel::DeleteSelectionPermanent up to the
\* confirmation box (FilePanel.cpp:2316-2323, 2352-2360).
PanelTrashDelete(kind, p) ==
  /\ TopLevel
  /\ p \in DOMAIN fs
  /\ Commit(Push(Cur, Frame("panelconfirm", 0, "none", Op(kind, FALSE, <<p>>, EmptyPath),
                            NoPrompt)))
  /\ UNCHANGED <<fs, faults, submits, renames, manual>>

\* The handler goes on behind a dialog it closed: to its end, or into the box that
\* reports the failure of the backend call and then to its end.
PanelResume(ok) ==
  Commit(IF ok THEN Pop(Cur) ELSE Push(Pop(Cur), Frame("msgbox", 0, "none", NoOp, NoPrompt)))

\* The confirmation box of the panel returns; on Yes TrashPath or DeletePath is
\* called for the selected path (FilePanel.cpp:2331-2343, 2368-2380).
PanelConfirmAnswer(yes) ==
  /\ ~crashed
  /\ uiStack # <<>>
  /\ Top.k = "panelconfirm"
  /\ LET p == Top.op.sources[1]
         can == IF Top.op.kind = "Trash" THEN Outcomes(TrashCanSucceed(fs, p, NewState(TRUE)))
                ELSE DeleteOutcomes(fs, p)
     IN IF ~yes THEN Commit(Pop(Cur)) /\ UNCHANGED <<fs, faults>>
        ELSE \E done \in can :
               /\ PanelResume(done)
               /\ fs' = IF done THEN RemoveAll(fs, p) ELSE fs
               /\ faults' = IF ~done /\ p \in DOMAIN fs THEN faults + 1 ELSE faults
  /\ UNCHANGED <<submits, renames, manual>>

\* CopyPathRecursive(src, dst) of the panel, for a source that is a regular file
\* (util.cpp:646-648, 582-589, 416-469): the whole call, no cancel function.
PasteCanCopy(f, src, dst) ==
  /\ NodeAt(f, src).t = "file"
  /\ CanCreateDirs(f, Parent(dst))
  /\ NodeAt(f, dst).t # "dir"

PasteCopy(f, src, dst) ==
  Put(CreateDirs(f, Parent(dst)), dst, IF src = dst THEN FileNode(<<>>) ELSE f[src])

\* FilePanel::PasteIntoCurrentDir with the copy of src on the clipboard, up to the
\* first dialog (FilePanel.cpp:2239-2269, 2293).
PasteIntoCurrentDir(src) ==
  /\ TopLevel
  /\ src \in DOMAIN fs
  /\ LET dst == JoinDirAndNameAny(PanelDir, Filename(src))
     IN IF PathExistsAny(fs, dst)
        THEN /\ Commit(Push(Cur, Frame("pasteprompt", 0, "none",
                                       Op("CopyMove", FALSE, <<src>>, PanelDir),
                                       [kind |-> "Exists", path |-> dst, errorMessage |-> ""])))
             /\ UNCHANGED <<fs, faults>>
        ELSE \E copied \in Outcomes(PasteCanCopy(fs, src, dst)) :
               /\ Commit(IF copied THEN Cur
                         ELSE Push(Cur, Frame("msgbox", 0, "none", NoOp, NoPrompt)))
               /\ fs' = IF copied THEN PasteCopy(fs, src, dst) ELSE fs
               /\ faults' = IF ~copied /\ PasteCanCopy(fs, src, dst) THEN faults + 1
                             ELSE faults
  /\ UNCHANGED <<submits, renames, manual>>

\* PromptExists of the panel returns (FilePanel.cpp:2269-2293): Skip and Cancel
\* end the handler, Rename tests the new name, Overwrite copies.
PasteAnswer(reply) ==
  /\ ~crashed
  /\ uiStack # <<>>
  /\ Top.k = "pasteprompt"
  /\ LET src == Top.op.sources[1]
         what == ExistsOutcome(reply)
         dst == IF what = "rename" THEN JoinDirAndNameAny(Top.op.dstDir, reply.renameTo)
                ELSE Top.prompt.path
     IN IF what \in {"skip", "cancel"}
        THEN Commit(Pop(Cur)) /\ UNCHANGED <<fs, faults>>
        ELSE IF what = "rename" /\ PathExistsAny(fs, dst)
        THEN /\ Commit(Push(Pop(Cur), [Top EXCEPT !.prompt.path = dst]))
             /\ UNCHANGED <<fs, faults>>
        ELSE \E copied \in Outcomes(PasteCanCopy(fs, src, dst)) :
               /\ PanelResume(copied)
               /\ fs' = IF copied THEN PasteCopy(fs, src, dst) ELSE fs
               /\ faults' = IF ~copied /\ PasteCanCopy(fs, src, dst) THEN faults + 1
                             ELSE faults
  /\ UNCHANGED <<submits, renames, manual>>

Panel ==
  \/ \E p \in PanelPaths, kind \in {"Trash", "Delete"} : PanelTrashDelete(kind, p)
  \/ \E yes \in BOOLEAN : PanelConfirmAnswer(yes)
  \/ \E src \in PanelPaths : PasteIntoCurrentDir(src)
  \/ \E reply \in Replies("CopyMove", "Exists") : PasteAnswer(reply)

(***************************************************************************)
(* The program.                                                             *)
(***************************************************************************)
Init ==
  /\ fileOp = NoSession
  /\ st = <<>>
  /\ nextSid = 1
  /\ opQueue = <<>>
  /\ nextOpId = 1
  /\ uiStack = <<>>
  /\ wk = IdleWorker
  /\ fs = InitialFs
  /\ crashed = FALSE
  /\ torn = (0 :> 0)
  /\ faults = 0
  /\ submits = 0
  /\ renames = 0
  /\ startLog = <<>>
  /\ manual = FALSE

Submit(copyMoveOps, trashOps, deleteOps) ==
  \/ \E op \in copyMoveOps : SubmitCopyMove(op)
  \/ \E op \in trashOps \cup deleteOps : SubmitTrashDelete(op)
  \/ \E op \in ExtractOps : SubmitExtract(op)

Dialogs ==
  \/ \E yes \in BOOLEAN : ConfirmAnswer(yes)
  \/ MsgBoxClose
  \/ PromptAnswer

Ui ==
  \/ Submit(CopyMoveOps, TrashOps, DeleteOps)
  \/ Dialogs
  \/ CancelClick
  \/ QueueButton
  \/ Tick

Next == Ui \/ Worker

Spec == Init /\ [][Next]_vars

\* One request submitted to the idle controller, and its run.
RunNext ==
  \/ submits = 0 /\ Submit(RunCopyMoveOps, RunTrashOps, RunDeleteOps)
  \/ Dialogs
  \/ CancelClick
  \/ Tick
  \/ Worker

RunSpec == Init /\ [][RunNext]_vars

\* One run under the scheduling the program relies on: the 100 ms timer of the
\* session keeps firing (wxTimer, MainFrame.cpp:1593) and the worker thread keeps
\* running (std::thread, backend calls return).  Nothing makes a condition
\* variable wake without a notification, and nothing makes the user answer.
LiveSpec == Init /\ [][RunNext]_vars /\ WF_vars(Tick) /\ WF_vars(WorkerRuns)

\* The queue: up to MaxQueued requests (an extraction, the deletion of the
\* destination directory, a copy into it of a source that is gone), the queue
\* buttons, and the runs that take the requests from the queue.
QueueCopyMoveOps == { Op("CopyMove", FALSE, <<Gone>>, DstDir) }

QueueNext ==
  \/ \E op \in ExtractOps : SubmitExtractUpTo(op, MaxQueued)
  \/ \E op \in QueueCopyMoveOps : SubmitCopyMoveUpTo(op, MaxQueued)
  \/ \E op \in DeleteOps : SubmitTrashDeleteUpTo(op, MaxQueued)
  \/ Dialogs
  \/ QueueButton
  \/ CancelClick
  \/ Tick
  \/ WScan \/ WLoop \/ WDeleteLoop \/ WDeleteEntry \/ WErrWake
  \/ WExec \/ WExecWake \/ WExecDone \/ SpuriousWake \/ WFinish

QueueSpec == Init /\ [][QueueNext]_vars

\* One request submitted to the idle controller, its run, and the context menu
\* of a file panel.
PanelNext ==
  \/ submits = 0 /\ Submit(CopyMoveOps, TrashOps, DeleteOps)
  \/ Dialogs
  \/ CancelClick
  \/ Tick
  \/ Worker
  \/ Panel

PanelSpec == Init /\ [][PanelNext]_vars


(***************************************************************************)
(* Properties of the controller.                                            *)
(***************************************************************************)
\* C1: a new session and its worker are created only when no session exists
\* (at most one run is active); otherwise the request is enqueued.
C1_CreatedOnlyWhenIdle == [][nextSid' # nextSid => fileOp = NoSession]_vars

\* Nothing is running and no dialog is open.
Quiescent == ~crashed /\ fileOp = NoSession /\ uiStack = <<>>
Started == {startLog[k] : k \in 1..Len(startLog)}

\* C2: absent manual reordering or cancellation of queued entries, the queued
\* requests start in the order they were queued, none twice, and every one of them
\* runs: once the controller has come to rest every id handed out has started.
C2_AllRunOnceInOrder ==
  ~manual =>
    /\ \A j, k \in 1..Len(startLog) :
          (j < k /\ startLog[j] # 0 /\ startLog[k] # 0) => startLog[j] < startLog[k]
    /\ Quiescent => \A id \in 1..(nextOpId - 1) : id \in Started

\* C3: each completion is handled once: the finished branch of the timer handler
\* runs at most once for a state object.
C3_HandledOnce == \A sid \in DOMAIN torn : torn[sid] <= 1


(***************************************************************************)
(* Properties of one run.                                                   *)
(***************************************************************************)
\* The session's state as the controller sees it.
Session == st[fileOp.sid]
\* The worker of a copy/move run is in its per-source loop.
InCopyLoop == wk.kind = "CopyMove" /\ wk.pc \notin {"scan", "done"}
\* The worker is inside the backend call for the current source.
BackendPcs == {"backend", "entries", "open", "chunk", "gio", "movedel", "result"}
\* The backend call for the current source has returned success.
ItemOk == wk.kind = "CopyMove" /\ wk.pc = "result" /\ wk.result = "ok"

\* The tree at p, by paths relative to p.
SubTree(f, p) ==
  [q \in {Rel(r, p) : r \in {x \in DOMAIN f : IsPrefix(p, x)}} |-> f[p \o q]]
\* wk.pre is the filesystem as the worker found it when it took up the source.
SrcTree == SubTree(wk.pre, Src)
DstBefore == SubTree(wk.pre, wk.dst)
DstNow == SubTree(fs, wk.dst)

\* C4: in a copy, move, trash or delete run the items-done counter counts each
\* source once (it equals the number of sources the loop has left behind), never
\* exceeds the number of sources, and equals it when the run has finished without
\* a cancel request.
C4_ItemsDone ==
  (fileOp # NoSession /\ fileOp.kind # "Extract") =>
     /\ Session.done <= fileOp.items
     /\ (wk.sid = fileOp.sid /\ wk.pc \notin {"scan", "done"}) => Session.done = wk.i - 1
     /\ (Session.finished /\ ~Session.cancelRequested) => Session.done = fileOp.items

\* A run of three sources, one empty and one missing, has finished uncancelled.
C4_Witness ==
  /\ fileOp.kind = "CopyMove" /\ fileOp.items = 3
  /\ Session.finished /\ ~Session.cancelRequested /\ Session.done = 3

\* C5: within one run itemsDone and bytesDone never decrease, whatever updates
\* them: the worker, the chunk loop or GIO's progress callback.
C5_Monotone ==
  [][\A sid \in (DOMAIN st) \cap (DOMAIN st') :
        /\ st'[sid].done >= st[sid].done
        /\ st'[sid].bytesDone >= st[sid].bytesDone]_vars

\* GIO has reported twice, the second report not above the first, and bytes are counted.
C5_Witness ==
  /\ wk.pc = "gio" /\ wk.off = 2 /\ wk.lastBytes = 2
  /\ S.bytesDone = 2

\* C6: sources are processed in input order: the worker's index moves only from a
\* source to the next one, and only in the step that counts the source done; all
\* sources before the current one are counted.
C6_InOrder ==
  /\ [](InCopyLoop => S.done = wk.i - 1)
  /\ [][(InCopyLoop /\ wk'.sid = wk.sid /\ wk'.pc # "done") =>
          \/ wk'.i = wk.i
          \/ /\ wk'.i = wk.i + 1
             /\ wk'.pc = "loop"
             /\ st'[wk.sid].done = st[wk.sid].done + 1]_vars

\* The backend call for the second source starts, the first one counted.
C6_Witness == wk.kind = "CopyMove" /\ wk.pc = "backend" /\ wk.i = 2 /\ S.done = 1

\* C7: the backend call of a copy/move run is entered only after the conflict loop
\* ended with the destination absent or with Overwrite, with no request pending;
\* while an Exists request is pending and after Skip or Cancel nothing is written.
C7_ConflictFirst ==
  /\ []((wk.kind = "CopyMove" /\ wk.pc \in BackendPcs) =>
          /\ ~wk.skipItem
          /\ wk.choice \notin {"Skip", "Cancel"}
          /\ S.prompt.kind = "none"
          /\ wk.pc = "backend" => (~PathExistsAny(fs, wk.dst) \/ wk.choice = "Overwrite"))
  /\ [][(wk.kind = "CopyMove" /\ (wk.pc = "wait" \/ wk.choice \in {"Skip", "Cancel"})) =>
          /\ fs' = fs
          /\ wk.sid \in DOMAIN st' => st'[wk.sid].bytesDone = st[wk.sid].bytesDone]_vars

\* Chunks are written to a destination that existed, after Overwrite.
C7_Witness ==
  /\ wk.kind = "CopyMove" /\ wk.pc = "chunk" /\ wk.choice = "Overwrite"
  /\ wk.off = 1 /\ wk.dst \in DOMAIN wk.pre

\* C8: after Skip the destination and the source are as they were before the item,
\* and the worker's next step changes no file and, unless cancel was requested
\* meanwhile, counts the item and goes to the next source.
C8_Skip ==
  /\ []((wk.kind = "CopyMove" /\ wk.choice = "Skip") =>
          /\ SubTree(fs, wk.dst) = DstBefore
          /\ SubTree(fs, Src) = SrcTree)
  /\ [][(wk.kind = "CopyMove" /\ wk.choice = "Skip" /\ wk' # wk) =>
          /\ fs' = fs
          /\ \/ CancelRequested
             \/ /\ wk'.pc = "loop" /\ wk'.i = wk.i + 1
                /\ st'[wk.sid].done = st[wk.sid].done + 1]_vars

\* Skip was chosen for the first of two sources.
C8_Witness ==
  /\ wk.kind = "CopyMove" /\ wk.choice = "Skip" /\ wk.pc = "post"
  /\ wk.i = 1 /\ Len(wk.sources) = 2 /\ ~CancelRequested

\* The destination the conflict was about at first.
OriginalDst == JoinDirAndNameAny(wk.dstDir, Filename(Src))

\* C9: after Rename(newName) the destination is Join(destDir, newName); it is
\* checked again, a request is raised if it exists and the backend is entered
\* only with a free name; when the item is done the first destination is as it
\* was and the new name holds the source's content.  A Rename reply without a
\* name is taken as Cancel.
C9_Rename ==
  /\ (wk.kind = "CopyMove" /\ wk.choice = "Rename") =>
       /\ \E name \in RenameNames : wk.dst = JoinDirAndNameAny(wk.dstDir, name)
       /\ wk.pc = "wait" => S.prompt = [kind |-> "Exists", path |-> wk.dst, errorMessage |-> ""]
       /\ wk.pc = "backend" => ~PathExistsAny(fs, wk.dst)
       /\ ItemOk => /\ DstNow = SrcTree
                    /\ SubTree(fs, OriginalDst) = SubTree(wk.pre, OriginalDst)
  /\ ExistsOutcome([DefaultReply EXCEPT !.existsChoice = "Rename"]) = "cancel"

\* A renamed item is done: the new name exists beside the first destination.
C9_Witness ==
  /\ ItemOk /\ wk.choice = "Rename"
  /\ wk.dst = <<"d", "n">> /\ OriginalDst \in DOMAIN fs

LoopWorker == wk.kind \in {"CopyMove", "Trash", "Delete"} /\ wk.pc # "done"
\* The reply in the mailbox tells the worker to stop.
StopReply ==
  /\ S.reply.has
  /\ \/ wk.pc = "errwait" /\ ~S.reply.continueAfterError
     \/ wk.pc = "wait" /\ ExistsOutcome(S.reply) = "cancel"
     \/ wk.pc = "twait" /\ S.reply.trashFailChoice = "Cancel"

\* C11: a failure of the backend call for one source, other than cancellation,
\* never ends the run by itself: the worker posts an Error request with the
\* failure's message and waits.  The answer "continue" counts the source done and
\* goes on with the next one; the run leaves its loop only at the end of the
\* sources, on a cancel request or on an answer that says stop, and from then on
\* it changes nothing in the filesystem.
C11_ErrorAsks ==
  [][/\ (wk.pc = "result" /\ wk'.pc # "result" /\ wk.result # "ok"
          /\ ~(CancelRequested /\ wk.result = "Canceled")) =>
         /\ wk'.pc = "errwait"
         /\ st'[wk.sid].prompt =
              [kind |-> "Error", path |-> wk.dst, errorMessage |-> wk.result]
         /\ st'[wk.sid].done = S.done
         /\ st'[wk.sid].cancelRequested = CancelRequested
     /\ (wk.pc = "errwait" /\ wk'.pc # "errwait") =>
         IF S.reply.has /\ S.reply.continueAfterError /\ ~CancelRequested
         THEN /\ wk'.pc = LoopPc(wk.kind) /\ wk'.i = wk.i + 1
              /\ st'[wk.sid].done = S.done + 1
         ELSE wk'.pc = "fin" /\ st'[wk.sid].cancelRequested
     /\ (LoopWorker /\ wk.pc # "fin" /\ wk'.pc = "fin") =>
         wk.i > Len(wk.sources) \/ CancelRequested \/ StopReply
     /\ (wk.sid # 0 /\ wk.pc \in {"fin", "done"} /\ wk'.sid = wk.sid) => fs' = fs
    ]_vars

\* The first source failed and the answer was "continue": the worker is at the
\* second source with one item counted and nothing copied.
C11_Witness ==
  /\ wk.kind = "CopyMove" /\ wk.pc = "loop" /\ wk.i = 2 /\ Len(wk.sources) = 2
  /\ ~CancelRequested /\ S.done = 1 /\ faults = 1 /\ fs = InitialFs

\* C12: in a trash run a source is deleted permanently only after TrashPath failed
\* for it and the reply taken from the mailbox is DeletePermanent, given in the
\* dialog of this source's TrashFailed request; without a cancel request.  No
\* other step of the run deletes.
C12_ExplicitDelete ==
  [][/\ (wk.kind = "Trash" /\ wk.pc # "tdel" /\ wk'.pc = "tdel") =>
         /\ wk.pc = "twait" /\ ~CancelRequested
         /\ S.prompt.kind = "TrashFailed" /\ S.prompt.path = Src
         /\ S.reply.has /\ S.reply.trashFailChoice = "DeletePermanent"
         /\ S.reply.asked = Src
     /\ (wk.kind = "Trash" /\ fs' # fs) => wk.pc \in {"tcall", "tdel"}
    ]_vars

\* The destination of some source of the request lies inside that source.
DestinationInsideSource(sources, dstDir) ==
  \E k \in 1..Len(sources) :
     /\ sources[k] # EmptyPath
     /\ InsideSource(sources[k], JoinDirAndNameAny(dstDir, Filename(sources[k])))
\* The submission passes the pre-flight checks.
Acceptable(sources, dstDir) ==
  PreflightOk(fs, dstDir) /\ ~DestinationInsideSource(sources, dstDir)

\* C13: a copy/move submission whose destination is missing, is not a directory
\* or lies inside one of its sources is rejected as a whole: no worker is started
\* for it (so nothing is written for any of its sources) and it is not queued.
C13_PreflightRejects ==
  [][/\ (wk'.sid # wk.sid /\ wk'.kind = "CopyMove") =>
          Acceptable(wk'.sources, wk'.dstDir)
     /\ (Len(opQueue') > Len(opQueue) /\ opQueue'[Len(opQueue')].kind = "CopyMove") =>
          Acceptable(opQueue'[Len(opQueue')].sources, opQueue'[Len(opQueue')].dstDir)
    ]_vars

\* The copy of the source tree is complete: its files and directories are in the
\* destination with the source's content.
CopyComplete(f) ==
  \A q \in DOMAIN SubTree(f, Src) :
     f[Src \o q].t \in {"file", "dir"} =>
        (wk.dst \o q) \in DOMAIN f /\ f[wk.dst \o q] = f[Src \o q]

\* C14: in the copy-then-delete fallback of a move the delete phase begins only
\* after the copy is complete; a move that fails or is cancelled before its delete
\* phase leaves the source as it was; a failure in the delete phase is reported as
\* a failure and leaves the copy in the destination.
C14_FallbackPhases ==
  [][/\ (wk.pc # "movedel" /\ wk'.pc = "movedel") => CopyComplete(fs')
     /\ (wk.move /\ wk.pc \in BackendPcs \ {"movedel", "result"}
          /\ wk'.pc = "result" /\ wk'.result # "ok") =>
            SubTree(fs', Src) = SubTree(wk.pre, Src)
     /\ (wk.pc = "movedel" /\ wk'.pc = "result" /\ wk'.result # "ok") =>
            fs' = fs /\ CopyComplete(fs')
    ]_vars

\* The move of the directory failed in its delete phase: the copy is in the
\* destination, the source is still there.
C14_Witness ==
  /\ wk.move /\ wk.pc = "result" /\ wk.result = "error" /\ Src = DirB
  /\ faults = 1 /\ CopyComplete(fs) /\ SubTree(fs, Src) = SrcTree

\* C15: a move that went through the copy-then-delete fallback to a destination
\* that did not exist ends in the filesystem an atomic rename would have left: the
\* source is gone and the destination holds every entry of the source tree, of
\* whatever type, with its content.
C15_FallbackAsRename ==
  [][(wk.move /\ wk.pc = "movedel" /\ wk'.pc = "result" /\ wk'.result = "ok"
      /\ wk.dst \notin DOMAIN wk.pre) =>
        fs' = MoveTree(wk.pre, Src, wk.dst)
    ]_vars

\* C16: deleting what does not exist succeeds, for a local and for a remote
\* address: the delete run counts such a source as done, posts no request and
\* changes nothing.
C16_DeleteIdempotent ==
  [][(wk.kind = "Delete" /\ wk.pc = "dloop" /\ wk' # wk /\ ~CancelRequested
      /\ wk.i <= Len(wk.sources) /\ Src # EmptyPath /\ Src \notin DOMAIN fs) =>
        /\ st'[wk.sid].done = S.done + 1
        /\ st'[wk.sid].prompt = NoPrompt
        /\ wk'.pc = "dloop" /\ wk'.i = wk.i + 1
        /\ fs' = fs
    ]_vars

\* C17: for every kind of run, a cancel request made while the worker is blocked
\* in its wait for a decision wakes the worker: the step that sets the cancel flag
\* also notifies the condition variable, with no decision in the mailbox.
C17_CancelWakes ==
  [][(/\ fileOp # NoSession /\ wk.sid = fileOp.sid /\ wk.blocked
      /\ ~Session.cancelRequested
      /\ fileOp.sid \in DOMAIN st' /\ st'[fileOp.sid].cancelRequested) =>
        ~wk'.blocked /\ ~st'[fileOp.sid].reply.has
    ]_vars

\* The backend operation for the current source has begun: the worker is past the
\* last test of the cancel request before the call.
StartedPcs == {"backend", "gio", "movedel", "tdel", "ddel"}
\* f and g agree outside the trees at p and q.
SameOutside(f, g, p, q) ==
  \A r \in (DOMAIN f) \cup (DOMAIN g) :
     (~IsPrefix(p, r) /\ ~IsPrefix(q, r)) => (r \in DOMAIN f /\ r \in DOMAIN g /\ f[r] = g[r])

\* C18: once cancel has been requested the run changes the filesystem only to end
\* the operation that had begun for the current source, or to remove the partial
\* file of the copy in progress; it starts nothing for a later source, and what
\* lies outside the current source and its destination, the files copied before
\* included, stays as it is.
C18_CancelStops ==
  [][(wk.pc # "done" /\ CancelRequested /\ fs' # fs) =>
        /\ wk.i <= Len(wk.sources)
        /\ \/ wk.pc \in StartedPcs
           \/ wk.pc = "chunk" /\ fs' = RemoveAll(fs, wk.out)
        /\ SameOutside(fs, fs', Src, wk.dst)
        /\ wk'.pc \in BackendPcs \cup {"errwait"} => wk'.i = wk.i
    ]_vars

\* The copy was cancelled with the first source done: its file is in the
\* destination, nothing was copied for the second source.
C18_Witness ==
  /\ wk.kind = "CopyMove" /\ ~wk.move /\ wk.pc = "fin" /\ CancelRequested /\ wk.i = 2
  /\ S.done = 1 /\ Len(wk.sources) = 2
  /\ NodeAt(fs, <<"d", "a">>) = FileNode(<<"a1", "a2">>)
  /\ <<"d", "b", "x">> \notin DOMAIN fs /\ DirB \in DOMAIN fs

\* The contents of the regular files at start.
WholeContents ==
  {InitialFs[p].data : p \in {q \in DOMAIN InitialFs : InitialFs[q].t = "file"}}
\* Every regular file holds the whole content of some file: none is a partial copy.
NoPartial == \A p \in DOMAIN fs : fs[p].t = "file" => fs[p].data \in WholeContents

Dequeued == {startLog[k] : k \in 1..Len(startLog)} \ {0}

\* C20: every queued entry has an id that is not zero; no two entries of the queue
\* share an id; an entry enters the queue with the next id of the counter, which
\* is greater than every id handed out before, and the counter never goes back;
\* the id of a request that left the queue is never in the queue again.
C20_QueueIds ==
  /\ [](/\ \A k \in 1..Len(opQueue) : opQueue[k].id \in 1..(nextOpId - 1)
        /\ \A j, k \in 1..Len(opQueue) : opQueue[j].id = opQueue[k].id => j = k
        /\ \A id \in Dequeued : id \in 1..(nextOpId - 1) /\ id \notin QueueIds
        /\ \A j, k \in 1..Len(startLog) :
              (startLog[j] # 0 /\ startLog[j] = startLog[k]) => j = k)
  /\ [][/\ nextOpId' \in {nextOpId, nextOpId + 1}
        /\ \A k \in 1..Len(opQueue') :
              opQueue'[k].id \notin QueueIds =>
                 /\ opQueue'[k].id = nextOpId /\ nextOpId' = nextOpId + 1
                 /\ k = Len(opQueue')
                 /\ \A id \in QueueIds \cup Dequeued : id < opQueue'[k].id
       ]_vars

\* Three requests were queued, the first of them was taken from the queue, and
\* the other two were reordered.
C20_Witness ==
  /\ Len(opQueue) = 2 /\ opQueue[1].id = 3 /\ opQueue[2].id = 2
  /\ 1 \in Dequeued /\ nextOpId = 4


(***************************************************************************)
(* The queue buttons, the mailbox and the sources.                          *)
(***************************************************************************)
\* The ids of q in order, and the entries of q other than the one with this id.
IdsOf(q) == [k \in 1..Len(q) |-> q[k].id]
Others(q, id) == SelectSeq(q, LAMBDA e : e.id # id)
\* The ids a selection can name: those handed out so far and one more.
SelectableIds == 1..nextOpId
\* The step of a queue button: the queue changes with no submission, no dialog
\* closing and no session ending or starting.
ButtonStep ==
  opQueue' # opQueue /\ submits' = submits /\ fileOp' = fileOp /\ uiStack' = uiStack

\* C21: remove-by-id removes the entry with that id and keeps the order of the
\* others; move-to-front puts the entry first and keeps the order of the others;
\* up and down swap the entry with its neighbour; first up, first to front, last
\* down and any operation on an id that is not queued change nothing; clear
\* empties the queue.  A step of a queue button changes the queue in one of these
\* ways and leaves the active run, the counter of ids and the filesystem alone.
C21_QueueMutations ==
  /\ [](\A id \in SelectableIds :
          LET q == opQueue
              queued == id \in QueueIds
              idx == IndexOf(q, id)
              top == MoveSelected(q, id, -999)
              up == MoveSelected(q, id, -1)
              down == MoveSelected(q, id, 1)
          IN IF ~queued
             THEN CancelQueued(q, id) = q /\ top = q /\ up = q /\ down = q
             ELSE /\ CancelQueued(q, id) = Others(q, id)
                  /\ Len(CancelQueued(q, id)) = Len(q) - 1
                  /\ top = <<q[idx]>> \o Others(q, id)
                  /\ idx = 1 => up = q
                  /\ idx = Len(q) => down = q
                  /\ idx > 1 => up = [q EXCEPT ![idx - 1] = q[idx], ![idx] = q[idx - 1]]
                  /\ idx < Len(q) =>
                        down = [q EXCEPT ![idx + 1] = q[idx], ![idx] = q[idx + 1]])
  /\ [][ButtonStep =>
          /\ UNCHANGED <<st, wk, fs, nextOpId, nextSid, startLog, crashed>>
          /\ \/ opQueue' = <<>>
             \/ \E id \in QueueIds :
                   \/ opQueue' = Others(opQueue, id)
                   \/ opQueue' = <<opQueue[IndexOf(opQueue, id)]>> \o Others(opQueue, id)
                   \/ \E k \in 1..(Len(opQueue) - 1) :
                         opQueue' = [opQueue EXCEPT ![k] = opQueue[k + 1],
                                                    ![k + 1] = opQueue[k]]
       ]_vars

\* The last of three queued entries was brought to the front while a run is active.
C21_Witness ==
  /\ fileOp # NoSession /\ manual /\ IdsOf(opQueue) = <<3, 1, 2>>

\* The confirmation boxes that are open.
NumConfirms(stack) == Cardinality({k \in 1..Len(stack) : stack[k].k = "confirm"})

\* C22: with a run active, a submission of any kind is appended to the tail of the
\* queue at once: no confirmation box opens and the active run is not touched;
\* the start of an entry taken from the queue opens no confirmation box.
C22_QueuedWithoutPrompt ==
  [][/\ (fileOp # NoSession /\ submits' = submits + 1) =>
          /\ Len(opQueue') = Len(opQueue) + 1
          /\ SubSeq(opQueue', 1, Len(opQueue)) = opQueue
          /\ uiStack' = uiStack
          /\ UNCHANGED <<fileOp, st, wk, fs>>
     /\ (opQueue # <<>> /\ opQueue' = Tail(opQueue) /\ fileOp' # fileOp) =>
          NumConfirms(uiStack') <= NumConfirms(uiStack)
    ]_vars

\* The sizes of the regular files at or below the sources from the k-th on.
RECURSIVE RegularBytes(_, _, _)
RegularBytes(f, sources, k) ==
  IF k > Len(sources) THEN 0
  ELSE (IF sources[k] = EmptyPath THEN 0
        ELSE SumSizes(f, {p \in DOMAIN f : IsPrefix(sources[k], p)}))
       + RegularBytes(f, sources, k + 1)
\* Some source of the run is a remote address.
AnyRemote == \E k \in 1..Len(wk.sources) : LooksLikeUriString(wk.sources[k])

\* C23: a copy/move run publishes scanDone and totalBytes in one step, before it
\* transfers anything; with local sources and no cancel request totalBytes is the
\* sum of the sizes of the regular files under the sources, symbolic links
\* neither followed nor counted; with a remote source it is 0.
C23_ScanTotal ==
  /\ []((wk.kind = "CopyMove" /\ wk.pc # "done") =>
          /\ S.scanDone <=> wk.pc # "scan"
          /\ ~S.scanDone => (S.totalBytes = 0 /\ fs = InitialFs /\ S.bytesDone = 0))
  /\ [][(wk.kind = "CopyMove" /\ wk.pc = "scan" /\ wk'.pc # "scan") =>
          /\ st'[wk.sid].scanDone
          /\ AnyRemote => st'[wk.sid].totalBytes = 0
          /\ (~AnyRemote /\ ~CancelRequested) =>
                st'[wk.sid].totalBytes = RegularBytes(fs, wk.sources, 1)
       ]_vars

\* The scan of the file of two chunks and the directory with one file of one
\* chunk is published: three chunks, nothing transferred.
C23_Witness ==
  /\ wk.kind = "CopyMove" /\ wk.pc = "loop" /\ wk.sources = <<FileA, DirB>>
  /\ S.scanDone /\ S.totalBytes = 3 /\ ~CancelRequested /\ fs = InitialFs

\* The entries of the tree are directories, regular files and symbolic links.
PlainTree(tree) == \A q \in DOMAIN tree : tree[q].t \in {"dir", "file", "link"}

\* C24: when CopyPathRecursive has copied a local tree of directories, regular
\* files and symbolic links to a destination that did not exist, the destination
\* is the source tree: the same names and structure, empty directories included,
\* the same content in every file, files of no bytes included, and the same
\* target in every symbolic link; the source is as it was.
C24_CopyTreeRoundTrip ==
  (ItemOk /\ ~wk.move /\ ~Uri(wk) /\ wk.dst \notin DOMAIN wk.pre /\ PlainTree(SrcTree)) =>
     /\ DstNow = SrcTree
     /\ SubTree(fs, Src) = SrcTree

\* The nested tree was copied: its empty directory, its file of no bytes and its
\* symbolic link are in the destination.
C24_Witness ==
  /\ ItemOk /\ ~wk.move /\ Src = DirT /\ wk.dst = <<"d", "t">> /\ wk.dst \notin DOMAIN wk.pre
  /\ NodeAt(fs, <<"d", "t", "e">>) = DirNode
  /\ NodeAt(fs, <<"d", "t", "z">>) = FileNode(<<>>)
  /\ NodeAt(fs, <<"d", "t", "l">>) = LinkNode(FileA)
  /\ NodeAt(fs, <<"d", "t", "n", "f">>) = FileNode(<<"f1">>)

\* The worker waits for a decision.
WaitPcs == {"wait", "errwait", "twait", "xwait"}
\* The timer handler opens a decision dialog in this step.
ServeStep ==
  Len(uiStack') = Len(uiStack) + 1 /\ uiStack'[Len(uiStack')].k = "prompt"
\* The worker takes the reply out of the mailbox in this step.
ConsumeStep ==
  /\ wk.pc \in WaitPcs /\ wk'.pc # wk.pc /\ S.reply.has
  /\ wk.pc = "xwait" \/ ~CancelRequested

\* C25: a decision request is served once: the timer handler opens a dialog for a
\* request only while no reply to it lies in the mailbox, and it deposits a reply
\* only into an empty mailbox, so the worker takes one reply for one request.
C25_ServedOnce ==
  [][/\ ServeStep => ~st[fileOp.sid].reply.has
     /\ \A sid \in (DOMAIN st) \cap (DOMAIN st') :
           (st'[sid].reply.has /\ st'[sid].reply # st[sid].reply) => ~st[sid].reply.has
    ]_vars

\* C26: the reply the worker takes out of the mailbox was given in the dialog of
\* the request the worker waits on: the same kind and the same path.
C26_ReplyMatchesRequest ==
  [][ConsumeStep =>
        /\ S.reply.askedKind = S.prompt.kind
        /\ S.reply.asked = S.prompt.path
    ]_vars

\* C27: whenever the queue is not empty a run is active; the queue does not sit
\* with entries while the controller is idle, also after an entry taken from the
\* queue failed the pre-flight check of its destination.
C27_QueueNeverStalls == (~crashed /\ opQueue # <<>>) => fileOp # NoSession

\* The regular files at or below the sources of the run, as they were at start.
SourceFiles ==
  {p \in DOMAIN InitialFs :
     /\ InitialFs[p].t = "file"
     /\ \E k \in 1..Len(wk.sources) :
           wk.sources[k] # EmptyPath /\ IsPrefix(wk.sources[k], p)}

\* C28: a copy run leaves its sources alone: whatever the decisions, every file of
\* the sources exists with the content it had, also when the destination
\* directory is the directory of the source and the answer is Overwrite.
C28_CopyKeepsSources ==
  (wk.kind = "CopyMove" /\ ~wk.move) =>
     \A p \in SourceFiles : p \in DOMAIN fs /\ fs[p] = InitialFs[p]

\* C29: every copy, move, trash and delete goes through the controller, also the
\* context-menu actions of a file panel, so while the worker of a run is alive
\* no other thread runs a backend operation: the filesystem changes only in the
\* worker's steps.
C29_OnlyWorkerActs ==
  [][(wk.pc # "done" /\ fs' # fs) => wk' # wk]_vars

\* C30: the mailbox of a finished run holds no request, so the timer handler opens
\* no decision dialog for a run whose worker has ended, also after a cancel
\* request woke the worker from its wait or a backend call returned Canceled.
C30_NoRequestWhenFinished ==
  /\ [](\A sid \in DOMAIN st : st[sid].finished => st[sid].prompt.kind = "none")
  /\ [][ServeStep => ~st[fileOp.sid].finished]_vars


(***************************************************************************)
(* Confirmations, destinations, phases and termination.                     *)
(***************************************************************************)
NeedsConfirmation(w) == w.kind \in {"Trash", "Delete"} \/ (w.kind = "CopyMove" /\ w.move)

\* C31: every Move, Trash or Delete run that has started was confirmed by the user
\* exactly once, whether it started at once or from the queue.
C31_ConfirmedOnce ==
  (wk.kind # "none" /\ NeedsConfirmation(wk)) => wk.confirms = 1


\* C32: whatever Rename decisions were given, the destination handed to the backend
\* is a direct child of the requested destination directory, on the same backend.
C32_DirectChild ==
  (wk.kind = "CopyMove" /\ wk.pc \in BackendPcs) =>
     /\ Len(wk.dst) = Len(wk.dstDir) + 1
     /\ Parent(wk.dst) = wk.dstDir
     /\ LooksLikeUriString(wk.dst) <=> LooksLikeUriString(wk.dstDir)


\* The fields of a state object that only its worker writes.
WorkerFields(s) == <<s.done, s.bytesDone, s.totalBytes, s.scanDone, s.prompt, s.finished>>

\* C33: a run goes from scanning to transferring to its end.  While the worker
\* scans nothing is transferred, and it transfers only with scanDone published; it
\* leaves a wait for a decision only with a reply in the mailbox or cancel
\* requested; finished is set once, by the worker's last step, and from then on
\* no counter, flag or request of the state changes and no worker step follows.
C33_Phases ==
  /\ [](wk.kind # "none" =>
          /\ wk.pc = "scan" => (fs = InitialFs /\ S.done = 0 /\ S.bytesDone = 0 /\ ~S.scanDone)
          /\ wk.pc # "scan" => S.scanDone
          /\ ~S.finished)
  /\ [][/\ (wk.pc \in WaitPcs /\ wk'.pc # wk.pc) => (S.reply.has \/ S.cancelRequested)
        /\ \A sid \in (DOMAIN st) \cap (DOMAIN st') :
             /\ (~st[sid].finished /\ st'[sid].finished) =>
                   (wk.sid = sid /\ wk.pc = "fin" /\ wk'.pc = "done")
             /\ st[sid].finished =>
                   (WorkerFields(st'[sid]) = WorkerFields(st[sid]) /\ wk' = wk)
       ]_vars

\* A copy of two sources has ended, finished is published and the copies are made.
C33_Witness ==
  /\ fileOp # NoSession /\ fileOp.kind = "CopyMove" /\ wk.pc = "done"
  /\ Session.finished /\ Session.scanDone /\ Session.done = 2
  /\ ~Session.cancelRequested /\ fs # InitialFs


\* The worker is at the top of its loop with a source that no longer exists.
AtMissingSource ==
  /\ wk.kind \in {"CopyMove", "Trash", "Delete"} /\ wk.pc = LoopPc(wk.kind)
  /\ wk.i <= Len(wk.sources) /\ ~CancelRequested
  /\ Src # EmptyPath /\ ~PathExistsAny(fs, Src)

\* C34: in a copy, move, trash or delete run a source that no longer exists at its
\* turn is passed over: the worker's next step counts it as done and goes to the
\* next source, enters no backend call and raises no decision request.
C34_MissingSkipped ==
  [][(AtMissingSource /\ wk' # wk) =>
        /\ wk'.pc = wk.pc /\ wk'.i = wk.i + 1
        /\ st'[wk.sid].done = S.done + 1
        /\ st'[wk.sid].prompt = NoPrompt
        /\ fs' = fs
    ]_vars


\* MovePath is called for local paths and fs::rename fails for a cause that is
\* neither a crossing of devices nor a missing capability: the destination is a
\* directory with entries, or of the other type.
RenameRefused ==
  /\ wk.kind = "CopyMove" /\ wk.move /\ wk.pc = "backend" /\ ~Uri(wk)
  /\ ~RenameOk(fs, Src, wk.dst)

\* C35: MovePath takes the copy-then-delete fallback only after a rename that
\* failed across devices or for want of support; a rename refused for another
\* cause is returned as a failure and nothing is copied or deleted.
C35_FallbackOnlyAcrossDevices ==
  [][(RenameRefused /\ wk' # wk) =>
        (wk'.pc = "result" /\ wk'.result # "ok" /\ fs' = fs)
    ]_vars


\* C36: the recursive delete of a directory source looks at the cancel request
\* between the children: an entry removed with cancel requested is the last one,
\* the walk ends with it and leaves the other entries and the directory in place.
C36_DeleteStopsOnCancel ==
  [][(wk.kind = "Delete" /\ wk.pc = "ddel" /\ CancelRequested /\ fs' # fs) =>
        (wk'.pc # "ddel" /\ Src \in DOMAIN fs')
    ]_vars


\* The item is counted and the worker is back at the top of the trash loop.
TrashItemDone ==
  /\ wk'.pc = "tloop" /\ wk'.i = wk.i + 1
  /\ st'[wk.sid].done = S.done + 1 /\ st'[wk.sid].prompt = NoPrompt

\* C37: in a trash run the permanent delete that follows a DeletePermanent decision
\* either succeeds, and the item is counted without a further request, or fails,
\* and the worker raises an Error request for the same source and waits; on
\* 'continue' the item is counted and the run goes on, on 'don't continue' the
\* run is cancelled.
C37_SecondRequest ==
  [][/\ (wk.kind = "Trash" /\ wk.pc = "tdel" /\ wk' # wk) =>
          \/ fs' = RemoveAll(fs, Src) /\ TrashItemDone
          \/ /\ fs' = fs /\ wk'.pc = "errwait" /\ wk'.i = wk.i
             /\ st'[wk.sid].prompt.kind = "Error" /\ st'[wk.sid].prompt.path = Src
             /\ st'[wk.sid].done = S.done
     /\ (wk.kind = "Trash" /\ wk.pc = "errwait" /\ wk'.pc # wk.pc /\ ~CancelRequested) =>
          IF S.reply.continueAfterError
          THEN fs' = fs /\ TrashItemDone
          ELSE st'[wk.sid].cancelRequested /\ wk'.pc = "fin" /\ st'[wk.sid].done = S.done
    ]_vars


\* A decision dialog is open.
PromptOpen == \E k \in 1..Len(uiStack) : uiStack[k].k = "prompt"
\* A run has started and its session is not yet destroyed.
RunLive == fileOp # NoSession

\* C38: a started run ends: if every decision dialog is answered, the run's
\* session is destroyed in the end (finished published, worker joined, fileOp_
\* reset); and once cancel has been requested it is destroyed whether or not
\* a dialog is answered after that.
C38_Terminates ==
  /\ ([]<>(~PromptOpen)) => (RunLive ~> ~RunLive)
  /\ (RunLive /\ Session.cancelRequested) ~> ~RunLive


=============================================================================
